---- MODULE Spec2Model ----
(***************************************************************************)
(* Concurrent workload harness of the Iceberg catalog comparison           *)
(* (Polaris / Hive Metastore / Nessie through Trino).                      *)
(*                                                                         *)
(* The harness exists in five near-duplicate variants:                     *)
(*   "comprehensive"  stress_test_comprehensive.py ComprehensiveStressTester*)
(*   "insert"         stress_test_insert.py        InsertStressTester      *)
(*   "delete"         stress_test_delete.py        DeleteStressTester      *)
(*   "update"         stress_test_update.py        UpdateStressTester      *)
(*   "concurrency"    test_concurrency.py          TrinoConcurrencyTester  *)
(*                                                                         *)
(* Specifications:                                                         *)
(*   SpecExec    one execute_query call (the Operation Executor)           *)
(*   SpecWorker  one worker function run in isolation                      *)
(*   SpecRun     the coordinator's timed phase: submit, workers, collect,  *)
(*               analyze                                                   *)
(*   SpecSetup   environment setup followed by the start of the workers    *)
(***************************************************************************)
EXTENDS Integers, Sequences, FiniteSets, TLC

VARIABLES
    xq,           \* SpecExec: the last execute_query call and what it gave
    config,       \* the Workload Configuration of the run
    wpc,          \* worker -> position of the worker function
    wi,           \* worker -> loop index (batch_id / op_num)
    wj,           \* worker -> index of the query inside the batch (update)
    batch_results,\* worker -> batch_results of the current batch (update)
    results,      \* worker -> its private result list
    dispatched,   \* worker -> the operations handed to execute_query (history)
    sleeps,       \* worker -> number of completed time.sleep calls (history)
    executes,     \* worker -> number of cursor.execute calls made (history)
    tasks,        \* coordinator: the futures submitted so far, in order
    max_workers,  \* coordinator: size of the ThreadPoolExecutor
    cpc,          \* coordinator: position in the run method
    collected,    \* coordinator: futures as_completed has yielded
    all_results,  \* coordinator: the merged Run Result
    task_errors,  \* coordinator: "Task ... failed" log lines, one per thrown task
    report,       \* aggregator: catalog -> statistics printed
    rankings,     \* aggregator: the rankings of the comparison section
    suite,        \* run_all_tests: the test it is in, and the results of the tests done
    spc,          \* setup: position in the setup method
    sidx,         \* setup: index into the statement list of the phase
    issued,       \* setup: statements executed so far, with their success
    db,           \* backend -> its namespace and table as the setup statements leave them
    setups,       \* number of calls of the setup method so far
    alt,          \* aggregator: the analysis of a second, related run result
    conns,        \* main: backend handle -> "none", "open", "closed", "close_failed"
    nessie,       \* wait_for_nessie: its arguments, position, attempt and what it did
    mpc           \* main: position between construction and the end of cleanup

vars == <<xq, config, wpc, wi, wj, batch_results, results, dispatched, sleeps,
          executes,
          tasks, max_workers, cpc, collected, all_results, task_errors, report,
          rankings, suite, spc, sidx, issued, db, setups, alt, conns, mpc, nessie>>

execVars   == <<xq>>
workerVars == <<wpc, wi, wj, batch_results, results, dispatched, sleeps,
               executes>>
coordVars  == <<tasks, max_workers, cpc, collected, all_results, task_errors, report, rankings,
               suite>>
setupVars  == <<spc, sidx, issued, db, setups>>
mainVars   == <<conns, mpc, nessie>>

(***************************************************************************)
(* Bounds of the model.                                                    *)
(***************************************************************************)
NumCatalogs == 2    \* cap on the backends of a run (head of the catalog list)
MaxWorkers  == 2    \* cap on the workers of a run (backends * threads_per_catalog)
MaxTotalOps == 4    \* cap on the operations of one run, all workers together
MaxOps      == 3    \* cap on the iterations of the worker run in isolation
MaxClock    == 1    \* time.time() readings are drawn from 0..MaxClock
MaxBatches  == 2    \* cap on the pre-population batches per backend
MaxSetups   == 2    \* cap on the calls of the setup method on one tester
MaxRetries  == 3    \* cap on the max_retries argument of wait_for_nessie

Variants == {"comprehensive", "insert", "delete", "update", "concurrency"}
StressVariants == Variants \ {"concurrency"}

(***************************************************************************)
(* The Operation Executor: execute_query.                                  *)
(***************************************************************************)
QueryKinds == {"INSERT", "UPDATE", "DELETE", "SELECT", "DDL"}

\* What the backend handle does during one call: `fault` is the driver call that
\* raises ("none": no call raises), `msg` is str(e) of what it raises, `rowcount`
\* is cursor.rowcount (when the cursor has the attribute) and `fetched` is
\* len(cursor.fetchall()).
Faults == {"none", "cursor", "execute", "fetchall", "commit"}
ErrorMessages == {"timeout", "table not found"}
RowCounts == {-1, 0, 2}
Backends == [fault : Faults, msg : ErrorMessages, rowcount : RowCounts,
             has_rowcount : BOOLEAN, fetched : {0, 1}]

\* An execute_query that sends the statement a second time.
DriverCallsExecuteTwice(variant, kind) == <<"cursor", "execute", "execute">>

\* The driver calls execute_query makes, in order, for a statement of `kind`.
DriverCalls(variant, kind) ==
    <<"cursor", "execute">> \o
    CASE variant = "update" /\ kind = "UPDATE" -> <<"commit">>
      [] variant = "update" /\ kind = "SELECT" -> <<"fetchall">>
      [] variant = "concurrency" /\ kind = "SELECT" -> <<"fetchall">>
      [] OTHER -> <<>>

Range(s) == {s[k] : k \in DOMAIN s}

\* The driver calls one execute_query call gets through: all of them, or the
\* ones up to the first that raises.
CallsMade(variant, kind, bk) ==
    LET calls == DriverCalls(variant, kind)
    IN IF bk.fault \in Range(calls)
       THEN SubSeq(calls, 1, CHOOSE k \in DOMAIN calls : calls[k] = bk.fault)
       ELSE calls

\* How many of them are cursor.execute.
ExecuteCalls(variant, kind, bk) ==
    Cardinality({k \in DOMAIN CallsMade(variant, kind, bk) :
                    CallsMade(variant, kind, bk)[k] = "execute"})

\* rows_count as the try block computes it.
RowsCount(variant, kind, bk) ==
    IF "fetchall" \in Range(DriverCalls(variant, kind))
    THEN bk.fetched
    ELSE IF bk.has_rowcount THEN bk.rowcount ELSE 0

\* The dictionary of the success branch. TrinoConcurrencyTester stores the
\* query and the fetched rows (None unless a SELECT) and no timestamp; the
\* query is represented by its kind, the rows by their number.
SuccessOutcome(variant, catalog_name, kind, bk, t0, t1, thread) ==
    IF variant = "concurrency"
    THEN [catalog |-> catalog_name, query |-> kind, duration |-> t1 - t0,
          rows_count |-> RowsCount(variant, kind, bk), success |-> TRUE,
          thread_id |-> thread,
          results |-> IF kind = "SELECT" THEN <<bk.fetched>> ELSE <<>>]
    ELSE [catalog |-> catalog_name, duration |-> t1 - t0,
          rows_count |-> RowsCount(variant, kind, bk), success |-> TRUE,
          thread_id |-> thread, timestamp |-> t0]

\* An except branch that stores the row count of the cursor instead of the
\* message of the exception.
FailedOutcomeWithRows(variant, catalog_name, kind, msg, t0, t1, thread) ==
    [catalog |-> catalog_name, duration |-> t1 - t0, success |-> FALSE,
     rows_count |-> 2, thread_id |-> thread, timestamp |-> t0]

\* The dictionary of the except branch.
FailedOutcome(variant, catalog_name, kind, msg, t0, t1, thread) ==
    IF variant = "concurrency"
    THEN [catalog |-> catalog_name, query |-> kind, duration |-> t1 - t0,
          success |-> FALSE, error |-> msg, thread_id |-> thread]
    ELSE [catalog |-> catalog_name, duration |-> t1 - t0, success |-> FALSE,
          error |-> msg, thread_id |-> thread, timestamp |-> t0]

\* A variant of execute_query whose commit/fetch step sits after the try block.
ExecuteQueryLateStepUnguarded(variant, catalog_name, kind, bk, t0, t1, thread) ==
    IF bk.fault \in {"cursor", "execute"}
    THEN [raised |-> FALSE,
          value |-> FailedOutcome(variant, catalog_name, kind, bk.msg, t0, t1,
                                 thread)]
    ELSE IF bk.fault \in Range(DriverCalls(variant, kind))
    THEN [raised |-> TRUE, exc |-> bk.msg]
    ELSE [raised |-> FALSE,
          value |-> SuccessOutcome(variant, catalog_name, kind, bk, t0, t1, thread)]

\* execute_query: every driver call is inside `try`, and `except Exception`
\* turns what it raises into the failure dictionary. The call gives
\* [raised |-> FALSE, value |-> outcome] or [raised |-> TRUE, exc |-> message].
ExecuteQuery(variant, catalog_name, kind, bk, t0, t1, thread) ==
    IF bk.fault \in Range(DriverCalls(variant, kind))
    THEN [raised |-> FALSE,
          value |-> FailedOutcome(variant, catalog_name, kind, bk.msg, t0, t1,
                                 thread)]
    ELSE [raised |-> FALSE,
          value |-> SuccessOutcome(variant, catalog_name, kind, bk, t0, t1, thread)]

NoCall == [called |-> FALSE]

\* The call under test: one execute_query call on any statement kind, backend
\* behaviour and pair of clock readings.
ExecCall ==
    \E v \in Variants, kind \in QueryKinds, bk \in Backends,
       t0 \in 0..MaxClock, t1 \in 0..MaxClock :
        /\ xq = NoCall
        /\ xq' = [called |-> TRUE, variant |-> v, kind |-> kind, bk |-> bk,
                  calls |-> CallsMade(v, kind, bk),
                  ret |-> ExecuteQuery(v, "iceberg_polaris", kind, bk, t0, t1,
                                       "MainThread")]

(***************************************************************************)
(* Workload Configuration and workers.                                     *)
(***************************************************************************)
\* self.catalogs; TrinoConcurrencyTester names its two backends itself.
CatalogList == <<"iceberg_polaris", "iceberg_hms", "iceberg_nessie">>
ConcurrencyCatalogList == <<"iceberg", "iceberg_hms">>

Min(a, b) == IF a <= b THEN a ELSE b

\* The backends of a run, in the order the coordinator goes through them:
\* the first `ncat` of the tester's list.
CatalogSeq(variant, ncat) ==
    IF variant = "concurrency"
    THEN SubSeq(ConcurrencyCatalogList, 1, Min(ncat, 2))
    ELSE SubSeq(CatalogList, 1, Min(ncat, 3))

RunCatalogs == CatalogSeq(config.variant, config.ncat)

\* The thread_num each submit loop passes: i + 1 or i.
ThreadNums(variant, threads) ==
    IF variant \in {"comprehensive", "delete"}
    THEN [k \in 1..threads |-> k]
    ELSE [k \in 1..threads |-> k - 1]

\* A worker is named by its arguments <<catalog_name, thread_num>>.
WorkersOf(variant, catalogs, threads) ==
    {<<catalogs[c], ThreadNums(variant, threads)[k]>> :
        c \in DOMAIN catalogs, k \in 1..threads}

Workers == WorkersOf(config.variant, RunCatalogs, config.threads)

\* random.uniform(lo, hi) on a grid of whole seconds.
DelayRanges == {<<0, 1>>, <<-1, 0>>, <<-1, -1>>}
Uniform(range) ==
    IF range[1] <= range[2] THEN range[1]..range[2] ELSE range[2]..range[1]

\* The delay range a worker sleeps with: the concurrency workers hard-code
\* a positive range, the stress workers use the configured one.
SleepRange(variant, delay_range) ==
    IF variant = "concurrency" THEN <<1, 1>> ELSE delay_range

\* run_all_tests runs three tests: concurrent inserts, concurrent reads and
\* the mixed workload.
NumPhases == 3

\* The state of run_all_tests at its first test; the run method of a stress
\* tester has one test only.
FirstTest == [phase |-> 1, done |-> <<>>]

\* The statements the workers of a test of run_all_tests generate.
PhaseKinds(phase) ==
    CASE phase = 1 -> {"INSERT"}
      [] phase = 2 -> {"SELECT"}
      [] OTHER -> {"INSERT", "SELECT"}

\* The thread_id label: f"{catalog_name}-ST{thread_num}" and its siblings;
\* the insert, read and mixed workers of TrinoConcurrencyTester use -T, -R
\* and -M.
Suffix(variant) ==
    CASE variant = "comprehensive" -> "-ST"
      [] variant = "insert" -> "-ST"
      [] variant = "delete" -> "-DT"
      [] variant = "update" -> "-UT"
      [] variant = "concurrency" ->
            CASE suite.phase = 1 -> "-T" [] suite.phase = 2 -> "-R" [] OTHER -> "-M"

ThreadId(variant, w) == <<w[1], Suffix(variant), w[2]>>

\* What the worker passes to execute_query as catalog_name: the comprehensive
\* worker passes the catalog, every other worker its thread label.
CatalogArg(variant, w) ==
    IF variant = "comprehensive" THEN <<w[1]>> ELSE ThreadId(variant, w)

\* The connection object a worker runs its statements on.
ConnectionOf(variant, w) ==
    CASE variant = "comprehensive" -> <<"connections", w[1]>>
      [] variant = "concurrency" ->
            IF w[1] = "iceberg" THEN <<"polaris_conn">> ELSE <<"hms_conn">>
      [] OTHER ->
            IF w[1] = "iceberg_polaris" THEN <<"polaris_conn">>
            ELSE IF w[1] = "iceberg_hms" THEN <<"hms_conn">>
            ELSE <<"nessie_conn">>

\* The statements a worker generates.
KindsOf(variant) ==
    CASE variant = "comprehensive" -> {"INSERT"}
      [] variant = "insert" -> {"INSERT"}
      [] variant = "delete" -> {"DELETE"}
      [] variant = "update" -> {"UPDATE"}
      [] variant = "concurrency" -> {"INSERT", "SELECT"}

\* Whether the worker guards its sleep with `if batch_id < batches - 1`.
SkipsLastSleep(variant) == variant \in {"comprehensive", "delete"}

\* Whether the loop body is wrapped in try / except Exception.
HasLoopHandler(variant) == variant # "concurrency"

\* Queries per loop iteration: updates_per_batch in the update worker.
BatchLen == IF config.variant = "update" THEN config.upb ELSE 1

\* batch_size of the comprehensive run method (its default).
InsertBatchSize == 100

\* What the worker assigns on the dictionary execute_query returned, before
\* it appends it: result['batch_id'] and result['batch_size'] in the
\* comprehensive worker, result['delete_type'] and result['operation_num']
\* in the delete worker (the type drawn by random.choice is not told apart),
\* nothing in the insert, update and concurrency workers.
WorkerWrites(variant, i) ==
    CASE variant = "comprehensive" -> [batch_id |-> i, batch_size |-> InsertBatchSize]
      [] variant = "delete" -> [delete_type |-> "drawn", operation_num |-> i + 1]
      [] OTHER -> <<>>

\* The record the worker stores for an executor result. `op` tells which
\* worker, loop index (batch_id, operation_num) and query of the batch the
\* record belongs to; where the code stores no such field it is a history tag.
Annotate(outcome, w, i, j) ==
    LET written == WorkerWrites(config.variant, i)
    IN [f \in DOMAIN outcome \cup DOMAIN written \cup {"op"} |->
           IF f = "op" THEN <<w, i, j>>
           ELSE IF f \in DOMAIN written THEN written[f] ELSE outcome[f]]

\* The dictionary the loop's except branch appends.
SyntheticOutcome(variant, w, i, msg, t) ==
    IF variant = "comprehensive"
    THEN [catalog |-> <<w[1]>>, success |-> FALSE, error |-> msg,
          thread_id |-> ThreadId(variant, w), duration |-> 0, timestamp |-> t,
          op |-> <<w, i, 0>>]
    ELSE [catalog |-> ThreadId(variant, w), success |-> FALSE, error |-> msg,
          duration |-> 0, timestamp |-> t, op |-> <<w, i, 0>>]

Active == {"loop", "incall"}
Terminated == {"returned", "thrown"}

\* The worker function is left by an exception: the future holds it and the
\* private list is unreachable.
Thrown(w) ==
    /\ wpc' = [wpc EXCEPT ![w] = "thrown"]
    /\ results' = [results EXCEPT ![w] = <<>>]
    /\ batch_results' = [batch_results EXCEPT ![w] = <<>>]
    /\ UNCHANGED <<wi, wj, sleeps>>

\* The except branch of the loop: the synthetic record is appended to `rs` and
\* the loop goes on with the next index. Without a loop handler the task throws.
Handler(w, rs, msg, t) ==
    IF HasLoopHandler(config.variant)
    THEN /\ results' = [results EXCEPT ![w] =
                Append(rs, SyntheticOutcome(config.variant, w, wi[w], msg, t))]
         /\ batch_results' = [batch_results EXCEPT ![w] = <<>>]
         /\ wi' = [wi EXCEPT ![w] = @ + 1]
         /\ wpc' = [wpc EXCEPT ![w] = "loop"]
         /\ UNCHANGED <<wj, sleeps>>
    ELSE Thrown(w)

\* The end of an iteration whose records are in `rs`: the inter-operation delay
\* (skipped after the last iteration where the code guards it; time.sleep
\* raises ValueError on a negative delay), then the next index.
EndIteration(w, rs, delay, t) ==
    IF SkipsLastSleep(config.variant) /\ ~(wi[w] < config.ops - 1)
    THEN /\ results' = [results EXCEPT ![w] = rs]
         /\ batch_results' = [batch_results EXCEPT ![w] = <<>>]
         /\ wi' = [wi EXCEPT ![w] = @ + 1]
         /\ wpc' = [wpc EXCEPT ![w] = "loop"]
         /\ UNCHANGED <<wj, sleeps>>
    ELSE IF delay < 0
         THEN Handler(w, rs, "sleep length must be non-negative", t)
         ELSE /\ results' = [results EXCEPT ![w] = rs]
              /\ batch_results' = [batch_results EXCEPT ![w] = <<>>]
              /\ sleeps' = [sleeps EXCEPT ![w] = @ + 1]
              /\ wi' = [wi EXCEPT ![w] = @ + 1]
              /\ wpc' = [wpc EXCEPT ![w] = "loop"]
              /\ UNCHANGED wj

\* A pool thread takes the queued task.
WStart(w) ==
    /\ wpc[w] = "queued"
    /\ Cardinality({u \in Workers : wpc[u] \in Active}) < max_workers
    /\ wpc' = [wpc EXCEPT ![w] = "loop"]
    /\ UNCHANGED <<wi, wj, batch_results, results, dispatched, sleeps, executes>>
    /\ UNCHANGED <<xq, alt, mainVars, config, coordVars, setupVars>>

\* Top of an iteration: the statement(s) are generated and the first one is
\* handed to execute_query; a failing generation goes to the except branch.
WDispatch(w, gen_ok, t) ==
    /\ wpc[w] = "loop"
    /\ wi[w] < config.ops
    /\ IF gen_ok
       THEN /\ wpc' = [wpc EXCEPT ![w] = "incall"]
            /\ wj' = [wj EXCEPT ![w] = 1]
            /\ dispatched' = [dispatched EXCEPT ![w] = @ \cup {<<wi[w], 1>>}]
            /\ UNCHANGED <<wi, results, batch_results, sleeps>>
       ELSE /\ Handler(w, results[w], "generation failed", t)
            /\ UNCHANGED dispatched
    /\ UNCHANGED executes
    /\ UNCHANGED <<xq, alt, mainVars, config, coordVars, setupVars>>

\* A worker that leaves its loop at the first failed Outcome.
WCompleteStopOnFailure(w, kind, bk, t0, t1, delay) ==
    /\ wpc[w] = "incall"
    /\ kind \in KindsOf(config.variant)
    /\ delay \in Uniform(SleepRange(config.variant, config.delay_range))
    /\ executes' = [executes EXCEPT ![w] = @ + ExecuteCalls(config.variant, kind, bk)]
    /\ LET ret == ExecuteQuery(config.variant, CatalogArg(config.variant, w),
                               kind, bk, t0, t1, w)
           result == Annotate(ret.value, w, wi[w], wj[w])
       IN IF result.success
          THEN EndIteration(w, Append(results[w], result), delay, t1)
          ELSE /\ results' = [results EXCEPT ![w] = Append(@, result)]
               /\ wi' = [wi EXCEPT ![w] = config.ops]
               /\ wpc' = [wpc EXCEPT ![w] = "loop"]
               /\ UNCHANGED <<wj, batch_results, sleeps>>
    /\ UNCHANGED dispatched
    /\ UNCHANGED <<xq, alt, mainVars, config, coordVars, setupVars>>

\* execute_query returns (or raises), the worker records the result, and after
\* the last query of the iteration it sleeps and moves to the next index.
WComplete(w, kind, bk, t0, t1, delay) ==
    /\ wpc[w] = "incall"
    /\ kind \in KindsOf(config.variant)
    /\ delay \in Uniform(SleepRange(config.variant, config.delay_range))
    /\ executes' = [executes EXCEPT ![w] = @ + ExecuteCalls(config.variant, kind, bk)]
    /\ LET ret == ExecuteQuery(config.variant, CatalogArg(config.variant, w),
                               kind, bk, t0, t1, w)
       IN IF ret.raised
          THEN /\ Handler(w, results[w], ret.exc, t1)
               /\ UNCHANGED dispatched
          ELSE LET result == Annotate(ret.value, w, wi[w], wj[w])
               IN IF wj[w] < BatchLen
                  THEN \* batch_results.append(result); the next query of the
                       \* batch enters execute_query
                       /\ batch_results' = [batch_results EXCEPT ![w] = Append(@, result)]
                       /\ wj' = [wj EXCEPT ![w] = @ + 1]
                       /\ dispatched' = [dispatched EXCEPT ![w] =
                                            @ \cup {<<wi[w], wj[w] + 1>>}]
                       /\ UNCHANGED <<wpc, wi, results, sleeps>>
                  ELSE \* results.append(result), or in the update worker
                       \* results.extend(batch_results)
                       /\ EndIteration(w, results[w] \o Append(batch_results[w], result),
                                       delay, t1)
                       /\ UNCHANGED dispatched
    /\ UNCHANGED <<xq, alt, mainVars, config, coordVars, setupVars>>

\* The loop is exhausted and the worker returns its list.
WReturn(w) ==
    /\ wpc[w] = "loop"
    /\ wi[w] >= config.ops
    /\ wpc' = [wpc EXCEPT ![w] = "returned"]
    /\ UNCHANGED <<wi, wj, batch_results, results, dispatched, sleeps, executes>>
    /\ UNCHANGED <<xq, alt, mainVars, config, coordVars, setupVars>>

\* An exception leaves the worker function: one raised outside the loop's
\* try (range() over a non-integer count) or one `except Exception` does not
\* catch.
WThrow(w) ==
    /\ wpc[w] = "loop"
    /\ Thrown(w)
    /\ UNCHANGED <<dispatched, executes>>
    /\ UNCHANGED <<xq, alt, mainVars, config, coordVars, setupVars>>

(***************************************************************************)
(* Result Aggregator (the per-catalog counts of the report).         *)
(***************************************************************************)
\* Python's `needle in haystack` on the names that occur.
Contains(hay, needle) ==
    \/ hay = needle
    \/ needle = "iceberg" /\ hay \in {"iceberg_polaris", "iceberg_hms", "iceberg_nessie"}

\* Whether the aggregator puts outcome r into catalog c's partition:
\* r['catalog'] == catalog, or f'{catalog}-ST' in r['catalog'] and siblings.
InPartition(variant, c, r) ==
    CASE variant = "comprehensive" -> r.catalog = <<c>>
      [] variant = "concurrency" -> Contains(r.catalog[1], c)
      [] OTHER -> Len(r.catalog) = 3 /\ r.catalog[1] = c
                  /\ r.catalog[2] = Suffix(variant)

Partition(variant, c, rs) ==
    LET In(r) == InPartition(variant, c, r) IN SelectSeq(rs, In)

SuccessOps(ops) == LET Ok(r) == r.success IN SelectSeq(ops, Ok)
FailedOps(ops) == LET Bad(r) == ~r.success IN SelectSeq(ops, Bad)

\* Whether the success/failure percentage lines for catalog c are printed
\* without an `if <catalog>_results:` guard.
DividesUnguarded(variant, c) ==
    \/ variant = "comprehensive"
    \/ variant = "update" /\ c = "iceberg_hms"

\* Whether the standard-deviation line calls statistics.stdev without the
\* `len(durations) > 1` test.
StdevUnguarded(variant) == variant = "insert"

RECURSIVE SumSeq(_)
SumSeq(ns) == IF ns = <<>> THEN 0 ELSE Head(ns) + SumSeq(Tail(ns))

Durations(ops) == [k \in DOMAIN ops |-> ops[k].duration]
RowCountsOf(ops) == [k \in DOMAIN ops |-> ops[k].rows_count]

\* An aggregator that takes the first duration for the minimum.
FirstOf(ns) == ns[1]

MinOf(ns) == CHOOSE m \in Range(ns) : \A n \in Range(ns) : m <= n
MaxOf(ns) == CHOOSE m \in Range(ns) : \A n \in Range(ns) : m >= n

\* The standard-deviation line for the durations ds of a non-empty success
\* partition: what it prints, or that statistics.stdev raises on one sample.
\* The value is kept as n*sum(x^2) - sum(x)^2, of which the printed figure
\* is a function.
Stdev(variant, ds) ==
    LET n == Len(ds)
        squares == [k \in DOMAIN ds |-> ds[k] * ds[k]]
        value == <<"value", n * SumSeq(squares) - SumSeq(ds) * SumSeq(ds)>>
    IN CASE variant = "concurrency" -> <<"omitted">>
         [] n > 1 -> value
         [] StdevUnguarded(variant) -> <<"raises">>
         [] variant = "update" -> <<"omitted">>
         [] OTHER -> <<"value", 0>>

\* The figures of the `if success_ops:` block. The mean is kept as the pair
\* of the sum and the number of durations.
DurationStats(variant, ok) ==
    [total_rows |-> IF variant = "concurrency" THEN <<>>
                    ELSE <<SumSeq(RowCountsOf(ok))>>,
     dur_sum |-> SumSeq(Durations(ok)),
     min_duration |-> MinOf(Durations(ok)),
     max_duration |-> MaxOf(Durations(ok)),
     stdev |-> Stdev(variant, Durations(ok))]

\* What the aggregator computes for one catalog.
CatalogStats(variant, c, rs) ==
    LET ops == Partition(variant, c, rs)
        ok == SuccessOps(ops)
    IN [catalog |-> c, count |-> Len(ops),
        success |-> Len(ok), failed |-> Len(FailedOps(ops)),
        durations |-> IF ok = <<>> THEN <<>> ELSE <<DurationStats(variant, ok)>>]

\* Whether the block of the catalog with figures st raises: ZeroDivisionError
\* at the percentage lines of an empty partition, StatisticsError at the
\* deviation line.
CatalogRaises(variant, st) ==
    \/ st.count = 0 /\ DividesUnguarded(variant, st.catalog)
    \/ st.durations # <<>> /\ st.durations[1].stdev = <<"raises">>

\* The catalogs the aggregator gets through, the last one being the one whose
\* block raises: all of them when none raises.
RECURSIVE ReportedPrefix(_, _, _)
ReportedPrefix(variant, cs, rs) ==
    IF cs = <<>> THEN <<>>
    ELSE LET st == CatalogStats(variant, Head(cs), rs)
         IN IF CatalogRaises(variant, st)
            THEN <<st>>
            ELSE <<st>> \o ReportedPrefix(variant, Tail(cs), rs)

\* The entries of performance_summary / catalogs_data, in the order they are
\* inserted: one per catalog with a success, in the aggregator's catalog order.
Summary(variant, cs, rs) ==
    LET stats == [k \in DOMAIN cs |-> CatalogStats(variant, cs[k], rs)]
        Succeeded(st) == st.success > 0
    IN SelectSeq(stats, Succeeded)

\* The sort keys, as the order they put two entries in. The mean duration is
\* dur_sum / success and the success rate success / count, compared by cross
\* multiplication; the throughput is a total over the same test duration.
RankingKeys(variant) ==
    CASE variant = "comprehensive" -> <<"speed", "throughput", "reliability">>
      [] variant = "delete" -> <<"speed", "throughput">>
      [] variant \in {"insert", "update"} -> <<"speed">>
      [] OTHER -> <<>>

Throughput(variant, st) ==
    IF variant = "delete" THEN st.success ELSE st.durations[1].total_rows[1]

Before(variant, key, a, b) ==
    CASE key = "speed" ->
            a.durations[1].dur_sum * b.success < b.durations[1].dur_sum * a.success
      [] key = "throughput" -> Throughput(variant, a) > Throughput(variant, b)
      [] key = "reliability" -> a.success * b.count > b.success * a.count

\* sorted() and list.sort(): a stable sort on the key alone, with or without
\* reverse=True. An entry goes in front of the first one it is strictly
\* before, so entries of equal key keep the order they came in.
RECURSIVE InsertStable(_, _, _, _)
InsertStable(variant, key, x, sorted) ==
    IF sorted = <<>> THEN <<x>>
    ELSE IF Before(variant, key, x, Head(sorted))
         THEN <<x>> \o sorted
         ELSE <<Head(sorted)>> \o InsertStable(variant, key, x, Tail(sorted))

RECURSIVE Sorted(_, _, _)
Sorted(variant, key, entries) ==
    IF entries = <<>> THEN <<>>
    ELSE InsertStable(variant, key, entries[Len(entries)],
                      Sorted(variant, key, SubSeq(entries, 1, Len(entries) - 1)))

\* The rankings of the comparison section, printed when more than one catalog
\* has a success.
Rankings(variant, cs, rs) ==
    LET entries == Summary(variant, cs, rs)
        keys == RankingKeys(variant)
    IN IF Len(entries) > 1
       THEN [k \in DOMAIN keys |->
                [key |-> keys[k], order |-> Sorted(variant, keys[k], entries)]]
       ELSE <<>>

\* The error strings of the failure sample of catalog c: the `error` of the
\* first 3 failed operations (5 in the insert tester), one line each;
\* TrinoConcurrencyTester prints none.
FailurePreview(variant, c, rs) ==
    LET bad == FailedOps(Partition(variant, c, rs))
        shown == IF variant = "insert" THEN 5 ELSE 3
        n == IF Len(bad) < shown THEN Len(bad) ELSE shown
    IN IF variant = "concurrency" THEN <<>>
       ELSE [k \in 1..n |-> bad[k].error]

AnalyzeRaisesOnNoSuccess(variant, cs, rs) ==
    LET rep == ReportedPrefix(variant, cs, rs)
    IN \E k \in DOMAIN rep : \/ CatalogRaises(variant, rep[k])
                              \/ rep[k].success = 0

\* The aggregator raises where its catalog loop stops.
AnalyzeRaises(variant, cs, rs) ==
    LET rep == ReportedPrefix(variant, cs, rs)
    IN rep # <<>> /\ CatalogRaises(variant, rep[Len(rep)])

(***************************************************************************)
(* Environment setup: setup_stress_environment, setup_test_environment and *)
(* the pre-population helpers.                                             *)
(***************************************************************************)
BatchSize == 1000

\* initial_rows values: none, whole batches, and one row more than a batch.
InitialRows ==
    {0} \cup {BatchSize * k : k \in 1..MaxBatches}
        \cup {BatchSize * (MaxBatches - 1) + 1}

\* len(range(0, rows, batch_size))
NumBatches(rows) == (rows + BatchSize - 1) \div BatchSize

\* Whether setup ends with a pre-population of the tables.
Populates(variant) == variant \in {"delete", "update"}

SetupSteps == <<"schema", "drop", "create">>

\* A setup without the DROP TABLE loop: the namespace statement is issued in
\* its place.
SetupPlanWithoutDrop(variant, catalogs, rows) ==
    LET n == Len(catalogs)
        nb == IF Populates(variant) THEN NumBatches(rows) ELSE 0
        kept == <<"schema", "schema", "create">>
        loops == [k \in 1..(3 * n) |->
                    [catalog |-> catalogs[((k - 1) % n) + 1],
                     step |-> kept[((k - 1) \div n) + 1], batch |-> 0]]
        batches == [k \in 1..(n * nb) |->
                    [catalog |-> catalogs[((k - 1) \div nb) + 1],
                     step |-> "populate", batch |-> ((k - 1) % nb) + 1]]
    IN loops \o batches

\* The statements of setup in the order they are executed. The stress testers
\* run three loops (every schema, every drop, every create) and then the
\* batches catalog by catalog; TrinoConcurrencyTester runs one flat list,
\* catalog by catalog.
SetupPlan(variant, catalogs, rows) ==
    LET n == Len(catalogs)
        nb == IF Populates(variant) THEN NumBatches(rows) ELSE 0
        flat == [k \in 1..(3 * n) |->
                    [catalog |-> catalogs[((k - 1) \div 3) + 1],
                     step |-> SetupSteps[((k - 1) % 3) + 1], batch |-> 0]]
        loops == [k \in 1..(3 * n) |->
                    [catalog |-> catalogs[((k - 1) % n) + 1],
                     step |-> SetupSteps[((k - 1) \div n) + 1], batch |-> 0]]
        batches == [k \in 1..(n * nb) |->
                    [catalog |-> catalogs[((k - 1) \div nb) + 1],
                     step |-> "populate", batch |-> ((k - 1) % nb) + 1]]
    IN IF variant = "concurrency" THEN flat ELSE loops \o batches

\* A setup that tests every statement for success.
FatalOnAnyFailure(variant, step) == TRUE

\* Whether a failed statement of this step makes setup raise.
Fatal(variant, step) ==
    /\ variant # "concurrency"
    /\ step \in {"create", "populate"}

\* A batch loop without the min() on batch_end.
BatchIdsUnclipped(b, rows) ==
    <<(b - 1) * BatchSize + 1, (b - 1) * BatchSize + BatchSize>>

\* The ids of the rows of batch b (b = 1, 2, ...) of a pre-population with
\* `rows` rows, as <<first, last>>: batch_start = (b - 1) * batch_size,
\* batch_end = min(batch_start + batch_size, rows), id_val = i + 1 for i in
\* range(batch_start, batch_end).
BatchIds(b, rows) ==
    LET batch_start == (b - 1) * BatchSize
        batch_end == IF batch_start + BatchSize < rows
                     THEN batch_start + BatchSize ELSE rows
    IN <<batch_start + 1, batch_end>>

\* A backend that has neither the namespace nor the table. `table` is <<>>
\* for no table and <<batches>> for a table holding these batches of rows.
FreshStore == [schema |-> FALSE, table |-> <<>>]

\* What a setup statement that succeeded does to the backend: CREATE SCHEMA
\* IF NOT EXISTS, DROP TABLE IF EXISTS, CREATE TABLE, INSERT INTO ... VALUES.
Apply(store, stmt, rows) ==
    CASE stmt.step = "schema" -> [store EXCEPT !.schema = TRUE]
      [] stmt.step = "drop" -> [store EXCEPT !.table = <<>>]
      [] stmt.step = "create" ->
            IF store.table = <<>> THEN [store EXCEPT !.table = << <<>> >>]
            ELSE store
      [] stmt.step = "populate" ->
            IF store.table = <<>> THEN store
            ELSE [store EXCEPT !.table =
                     <<Append(store.table[1], BatchIds(stmt.batch, rows))>>]

\* The backend after one setup in which every statement succeeded.
PopulatedOnce(variant, rows) ==
    LET nb == IF Populates(variant) THEN NumBatches(rows) ELSE 0
    IN [schema |-> TRUE, table |-> <<[b \in 1..nb |-> BatchIds(b, rows)]>>]

\* The record of an executed setup statement.
Executed(stmt, ok) ==
    [catalog |-> stmt.catalog, step |-> stmt.step, batch |-> stmt.batch,
     success |-> ok]

\* The run method calls setup.
SetupBegin ==
    /\ mpc = "run"
    /\ spc = "idle"
    /\ spc' = "setup"
    /\ setups' = setups + 1
    /\ UNCHANGED <<sidx, issued, db>>
    /\ UNCHANGED <<xq, alt, mainVars, config, workerVars, coordVars>>

\* The setup method is called once more on the same tester, after a call
\* that returned and before any worker is submitted.
SetupAgain ==
    /\ mpc = "run"
    /\ spc = "ready"
    /\ cpc = "start"
    /\ setups < MaxSetups
    /\ spc' = "setup"
    /\ sidx' = 0
    /\ setups' = setups + 1
    /\ UNCHANGED <<issued, db>>
    /\ UNCHANGED <<xq, alt, mainVars, config, workerVars, coordVars>>

\* One setup statement goes through execute_query; a failed result of a fatal
\* step raises, any other failure is logged and setup goes on. After the last
\* statement setup returns.
SetupStatement(bk) ==
    /\ spc = "setup"
    /\ LET plan == SetupPlan(config.variant, RunCatalogs, config.initial_rows)
       IN /\ sidx < Len(plan)
          /\ LET stmt == plan[sidx + 1]
                 kind == IF stmt.step = "populate" THEN "INSERT" ELSE "DDL"
                 result == ExecuteQuery(config.variant, <<stmt.catalog>>, kind,
                                        bk, 0, 0, "MainThread").value
             IN /\ issued' = Append(issued, Executed(stmt, result.success))
                /\ db' = IF result.success
                         THEN [db EXCEPT ![stmt.catalog] =
                                  Apply(@, stmt, config.initial_rows)]
                         ELSE db
                /\ sidx' = sidx + 1
                /\ spc' = IF ~result.success /\ Fatal(config.variant, stmt.step)
                          THEN "raised"
                          ELSE IF sidx + 1 = Len(plan) THEN "ready" ELSE "setup"
    /\ UNCHANGED setups
    /\ UNCHANGED <<xq, alt, mainVars, config, workerVars, coordVars>>

(***************************************************************************)
(* Workload Coordinator: the timed phase of the run method.                *)
(***************************************************************************)
\* The order of the executor.submit calls: catalog by catalog, thread by thread.
SubmissionOrder(variant, catalogs, threads) ==
    [k \in 1..(Len(catalogs) * threads) |->
        <<catalogs[((k - 1) \div threads) + 1],
          ThreadNums(variant, threads)[((k - 1) % threads) + 1]>>]

\* max_workers: len(self.catalogs) * threads_per_catalog, written
\* threads_per_catalog * 3 and num_threads * 2 where the count is a literal.
\* A pool sized for the threads of one catalog.
PoolSizeOfOneCatalog(variant, catalogs, threads) == threads

PoolSize(variant, catalogs, threads) == Len(catalogs) * threads

\* A run method that creates its pool without waiting for setup to return.
EnterPoolDuringSetup ==
    /\ cpc = "start"
    /\ spc \in {"setup", "ready"}
    /\ max_workers' = PoolSize(config.variant, RunCatalogs, config.threads)
    /\ cpc' = "submit"
    /\ UNCHANGED <<tasks, collected, all_results, task_errors, report, rankings>>
    /\ UNCHANGED suite
    /\ UNCHANGED <<xq, alt, mainVars, config, workerVars, setupVars>>

\* with ThreadPoolExecutor(max_workers=...) as executor, after start_time: the
\* statement follows the setup call, so it runs only when setup has returned.
EnterPool ==
    /\ cpc = "start"
    /\ spc = "ready"
    /\ max_workers' = PoolSize(config.variant, RunCatalogs, config.threads)
    /\ cpc' = "submit"
    /\ UNCHANGED <<tasks, collected, all_results, task_errors, report, rankings>>
    /\ UNCHANGED suite
    /\ UNCHANGED <<xq, alt, mainVars, config, workerVars, setupVars>>

\* One executor.submit call; after the last one the collect loop begins.
Submit ==
    /\ cpc = "submit"
    /\ LET order == SubmissionOrder(config.variant, RunCatalogs, config.threads)
           w == order[Len(tasks) + 1]
       IN /\ tasks' = Append(tasks, w)
          /\ wpc' = [wpc EXCEPT ![w] = "queued"]
          /\ cpc' = IF Len(tasks) + 1 = Len(order) THEN "collect" ELSE "submit"
    /\ UNCHANGED <<max_workers, collected, all_results, task_errors, report, rankings>>
    /\ UNCHANGED <<wi, wj, batch_results, results, dispatched, sleeps, executes>>
    /\ UNCHANGED suite
    /\ UNCHANGED <<xq, alt, mainVars, config, setupVars>>

\* A collect step that keeps only the list of the future it handles.
CollectOverwrites(w) ==
    /\ cpc = "collect"
    /\ w \in Range(tasks) \ collected
    /\ wpc[w] \in Terminated
    /\ collected' = collected \cup {w}
    /\ IF wpc[w] = "returned"
       THEN all_results' = results[w] /\ UNCHANGED task_errors
       ELSE task_errors' = Append(task_errors, w) /\ UNCHANGED all_results
    /\ UNCHANGED <<tasks, max_workers, cpc, report, rankings>>
    /\ UNCHANGED suite
    /\ UNCHANGED <<xq, alt, mainVars, config, workerVars, setupVars>>

\* A collect loop whose try encloses the whole `for`: the first task that
\* raises ends the collection.
CollectAbortsOnThrow(w) ==
    /\ cpc = "collect"
    /\ w \in Range(tasks) \ collected
    /\ wpc[w] \in Terminated
    /\ collected' = collected \cup {w}
    /\ IF wpc[w] = "returned"
       THEN /\ all_results' = all_results \o results[w]
            /\ UNCHANGED <<task_errors, cpc>>
       ELSE /\ task_errors' = Append(task_errors, w)
            /\ cpc' = "analyze"
            /\ UNCHANGED all_results
    /\ UNCHANGED <<tasks, max_workers, report, rankings>>
    /\ UNCHANGED suite
    /\ UNCHANGED <<xq, alt, mainVars, config, workerVars, setupVars>>

\* One turn of `for task in as_completed(tasks)`: a finished future not yet
\* yielded; task.result() gives the list, which is merged, or raises, which
\* is logged.
Collect(w) ==
    /\ cpc = "collect"
    /\ w \in Range(tasks) \ collected
    /\ wpc[w] \in Terminated
    /\ collected' = collected \cup {w}
    /\ IF wpc[w] = "returned"
       THEN all_results' = all_results \o results[w] /\ UNCHANGED task_errors
       ELSE task_errors' = Append(task_errors, w) /\ UNCHANGED all_results
    /\ UNCHANGED <<tasks, max_workers, cpc, report, rankings>>
    /\ UNCHANGED suite
    /\ UNCHANGED <<xq, alt, mainVars, config, workerVars, setupVars>>

\* A with block that is left without the collect loop and the executor's
\* shutdown waiting for the tasks.
ExitPoolWithoutWaiting ==
    /\ cpc = "collect"
    /\ cpc' = "analyze"
    /\ UNCHANGED <<tasks, max_workers, collected, all_results, task_errors, report, rankings>>
    /\ UNCHANGED suite
    /\ UNCHANGED <<xq, alt, mainVars, config, workerVars, setupVars>>

\* as_completed is exhausted and the with block is left; end_time is taken.
ExitPool ==
    /\ cpc = "collect"
    /\ collected = Range(tasks)
    /\ cpc' = "analyze"
    /\ UNCHANGED <<tasks, max_workers, collected, all_results, task_errors, report, rankings>>
    /\ UNCHANGED suite
    /\ UNCHANGED <<xq, alt, mainVars, config, workerVars, setupVars>>

\* The analyze_* call and the return of all_results (or the exception the
\* analysis raises).
Analyze ==
    /\ cpc = "analyze"
    /\ report' = ReportedPrefix(config.variant, RunCatalogs, all_results)
    /\ rankings' = IF AnalyzeRaises(config.variant, RunCatalogs, all_results)
                   THEN <<>>
                   ELSE Rankings(config.variant, RunCatalogs, all_results)
    /\ cpc' = IF AnalyzeRaises(config.variant, RunCatalogs, all_results)
              THEN "raised" ELSE "done"
    /\ UNCHANGED <<tasks, max_workers, collected, all_results, task_errors>>
    /\ UNCHANGED suite
    /\ UNCHANGED <<xq, alt, mainVars, config, workerVars, setupVars>>

\* Whether main's summary divides by the number of results.
SummaryDivides(variant) == variant \in StressVariants

\* main after the run method has returned: the closing summary, which fails
\* on the empty run result where it takes a percentage of it.
Main ==
    /\ cpc = "done"
    /\ cpc' = IF SummaryDivides(config.variant) /\ Len(all_results) = 0
              THEN "main_raised" ELSE "exited"
    /\ UNCHANGED <<tasks, max_workers, collected, all_results, task_errors, report, rankings>>
    /\ UNCHANGED suite
    /\ UNCHANGED <<xq, alt, mainVars, config, workerVars, setupVars>>

NoAlt == [called |-> FALSE]

(***************************************************************************)
(* Backend handles: construction and cleanup around the run.               *)
(***************************************************************************)
\* The handles in the order setup_connections opens and cleanup closes them.
HandleOrder == RunCatalogs

\* The first handle of the order that is in state st, if any.
FirstIn(st) ==
    LET hits == {k \in DOMAIN HandleOrder : conns[HandleOrder[k]] = st}
    IN IF hits = {} THEN <<>>
       ELSE <<HandleOrder[CHOOSE k \in hits : \A j \in hits : k <= j]>>

(***************************************************************************)
(* wait_for_nessie of test_nessie_catalog.py.                              *)
(***************************************************************************)
NotWaiting == [pc |-> "idle"]

\* How a requests.get call ends: status 200, another status, or a
\* requests.exceptions.RequestException.
Answers == {"200", "503", "RequestException"}

\* A wait_for_nessie that does not test the status of the response.
AfterRequestIgnoresStatus(w, answer) ==
    CASE answer # "RequestException" ->
            [w EXCEPT !.attempt = @ + 1, !.trace = Append(@, <<"get", answer>>)]
      [] w.delay < 0 ->
            [w EXCEPT !.pc = "raised", !.trace = Append(@, <<"get", answer>>)]
      [] OTHER ->
            [w EXCEPT !.attempt = @ + 1,
                      !.trace = @ \o << <<"get", answer>>, <<"sleep", w.delay>> >>]

\* The body of the loop for one attempt: status 200 returns True; another
\* status goes to the next attempt at once; a RequestException is logged
\* and followed by time.sleep(delay), which raises ValueError on a negative
\* delay.
AfterRequest(w, answer) ==
    CASE answer = "200" ->
            [w EXCEPT !.pc = "returned", !.result = <<TRUE>>,
                      !.trace = Append(@, <<"get", answer>>)]
      [] answer = "503" ->
            [w EXCEPT !.attempt = @ + 1, !.trace = Append(@, <<"get", answer>>)]
      [] w.delay < 0 ->
            [w EXCEPT !.pc = "raised", !.trace = Append(@, <<"get", answer>>)]
      [] OTHER ->
            [w EXCEPT !.attempt = @ + 1,
                      !.trace = @ \o << <<"get", answer>>, <<"sleep", w.delay>> >>]

\* wait_for_nessie(max_retries, delay) is called.
WaitCall(max_retries, delay) ==
    /\ nessie = NotWaiting
    /\ nessie' = [pc |-> "loop", max_retries |-> max_retries, delay |-> delay,
                  attempt |-> 0, trace |-> <<>>, result |-> <<>>]
    /\ UNCHANGED <<conns, mpc>>
    /\ UNCHANGED <<xq, alt, config, workerVars, coordVars, setupVars>>

\* One attempt of the loop.
WaitRequest(answer) ==
    /\ nessie.pc = "loop"
    /\ nessie.attempt < nessie.max_retries
    /\ nessie' = AfterRequest(nessie, answer)
    /\ UNCHANGED <<conns, mpc>>
    /\ UNCHANGED <<xq, alt, config, workerVars, coordVars, setupVars>>

\* range(max_retries) is exhausted: the error is logged and False returned.
WaitExhausted ==
    /\ nessie.pc = "loop"
    /\ nessie.attempt >= nessie.max_retries
    /\ nessie' = [nessie EXCEPT !.pc = "returned", !.result = <<FALSE>>]
    /\ UNCHANGED <<conns, mpc>>
    /\ UNCHANGED <<xq, alt, config, workerVars, coordVars, setupVars>>

\* The state main is in once the tester is constructed.
MainRunning ==
    /\ conns = [c \in Range(HandleOrder) |-> "open"]
    /\ mpc = "run"
    /\ nessie = NotWaiting

\* One trino.dbapi.connect call of the constructor; a failure is logged and
\* raised again, main has no tester to clean up and ends.
SetupConnections(ok) ==
    /\ mpc = "new"
    /\ LET c == FirstIn("none")[1]
       IN IF ok
          THEN /\ conns' = [conns EXCEPT ![c] = "open"]
               /\ mpc' = IF \A d \in Range(HandleOrder) \ {c} : conns[d] = "open"
                         THEN "run" ELSE "new"
          ELSE /\ mpc' = "init_raised"
               /\ UNCHANGED conns
    /\ UNCHANGED nessie
    /\ UNCHANGED <<xq, alt, config, workerVars, coordVars, setupVars>>

\* Whether the run method and main's summary are over: returned, or left by
\* an exception of the setup, of the aggregator or of the summary.
RunOver ==
    \/ cpc \in {"exited", "main_raised", "raised"}
    \/ spc = "raised"

\* A main that closes the handles at any moment after construction.
CleanupBeginAnyTime ==
    /\ mpc = "run"
    /\ mpc' = "cleanup"
    /\ UNCHANGED conns
    /\ UNCHANGED nessie
    /\ UNCHANGED <<xq, alt, config, workerVars, coordVars, setupVars>>

\* The finally clause of main: tester.cleanup() is called.
CleanupBegin ==
    /\ mpc = "run"
    /\ RunOver
    /\ mpc' = "cleanup"
    /\ UNCHANGED conns
    /\ UNCHANGED nessie
    /\ UNCHANGED <<xq, alt, config, workerVars, coordVars, setupVars>>

\* Whether cleanup wraps each close() in try / except Exception.
ClosesGuarded(variant) == variant = "comprehensive"

\* One close() call of cleanup, on the next handle of the order.
CleanupClose(ok) ==
    /\ mpc = "cleanup"
    /\ FirstIn("open") # <<>>
    /\ LET c == FirstIn("open")[1]
       IN IF ok
          THEN /\ conns' = [conns EXCEPT ![c] = "closed"]
               /\ UNCHANGED mpc
          ELSE /\ conns' = [conns EXCEPT ![c] = "close_failed"]
               /\ mpc' = IF ClosesGuarded(config.variant)
                         THEN "cleanup" ELSE "cleanup_raised"
    /\ UNCHANGED nessie
    /\ UNCHANGED <<xq, alt, config, workerVars, coordVars, setupVars>>

\* cleanup returns after the last handle.
CleanupReturn ==
    /\ mpc = "cleanup"
    /\ FirstIn("open") = <<>>
    /\ mpc' = "ended"
    /\ UNCHANGED conns
    /\ UNCHANGED nessie
    /\ UNCHANGED <<xq, alt, config, workerVars, coordVars, setupVars>>

(***************************************************************************)
(* Specifications.                                                         *)
(***************************************************************************)
Configs ==
    [variant : Variants, ncat : 1..NumCatalogs, threads : 1..MaxWorkers,
     ops : 0..(MaxTotalOps + MaxOps),
     upb : 1..2, delay_range : DelayRanges, initial_rows : InitialRows]

\* The backend answers and clock readings the worker and run specifications
\* draw from.
WorkerBackends ==
    {bk \in Backends : /\ bk.fault \in {"none", "execute"}
                       /\ bk.msg = "timeout" /\ bk.rowcount = 2
                       /\ bk.has_rowcount /\ bk.fetched = 1}

IdleConfig ==
    [variant |-> "comprehensive", ncat |-> 1, threads |-> 1, ops |-> 0, upb |-> 1,
     delay_range |-> <<0, 1>>, initial_rows |-> 0]

WorkersIdle ==
    /\ wpc = [w \in Workers |-> "unsubmitted"]
    /\ wi = [w \in Workers |-> 0]
    /\ wj = [w \in Workers |-> 0]
    /\ batch_results = [w \in Workers |-> <<>>]
    /\ results = [w \in Workers |-> <<>>]
    /\ dispatched = [w \in Workers |-> {}]
    /\ sleeps = [w \in Workers |-> 0]
    /\ executes = [w \in Workers |-> 0]

CoordIdle ==
    /\ tasks = <<>>
    /\ max_workers = 0
    /\ cpc = "start"
    /\ collected = {}
    /\ all_results = <<>>
    /\ task_errors = <<>>
    /\ report = <<>>
    /\ rankings = <<>>
    /\ suite = FirstTest

SetupIdle ==
    /\ spc = "idle"
    /\ sidx = 0
    /\ issued = <<>>
    /\ db = [c \in Range(RunCatalogs) |-> FreshStore]
    /\ setups = 0

\* The state a setup in which every statement succeeded leaves behind.
SetupDone ==
    LET plan == SetupPlan(config.variant, RunCatalogs, config.initial_rows)
    IN /\ spc = "ready"
       /\ sidx = Len(plan)
       /\ issued = [k \in DOMAIN plan |-> Executed(plan[k], TRUE)]
       /\ db = [c \in Range(RunCatalogs) |->
                   PopulatedOnce(config.variant, config.initial_rows)]
       /\ setups = 1

\* ---- SpecExec: execute_query called on arbitrary backend behaviour.
InitExec ==
    /\ xq = NoCall
    /\ alt = NoAlt
    /\ config = IdleConfig
    /\ MainRunning
    /\ WorkersIdle /\ CoordIdle /\ SetupIdle

NextExec ==
    /\ ExecCall
    /\ UNCHANGED <<alt, mainVars, config, workerVars, coordVars, setupVars>>

SpecExec == InitExec /\ [][NextExec]_vars

\* ---- SpecWorker: one worker function, alone on a pool of one thread.
WorkerConfigs ==
    {c \in Configs : /\ c.threads = 1 /\ c.ncat = 1 /\ c.initial_rows = 0
                     /\ c.ops <= MaxOps
                     /\ c.variant # "update" => c.upb = 1
                     /\ c.variant = "update" => c.ops * c.upb <= MaxOps}

TheWorker == SubmissionOrder(config.variant, RunCatalogs, config.threads)[1]

InitWorker ==
    /\ xq = NoCall
    /\ alt = NoAlt
    /\ config \in WorkerConfigs
    /\ MainRunning
    /\ wpc = [w \in Workers |-> IF w = TheWorker THEN "queued" ELSE "unsubmitted"]
    /\ wi = [w \in Workers |-> 0]
    /\ wj = [w \in Workers |-> 0]
    /\ batch_results = [w \in Workers |-> <<>>]
    /\ results = [w \in Workers |-> <<>>]
    /\ dispatched = [w \in Workers |-> {}]
    /\ sleeps = [w \in Workers |-> 0]
    /\ executes = [w \in Workers |-> 0]
    /\ tasks = <<TheWorker>>
    /\ max_workers = 1
    /\ cpc = "collect"
    /\ collected = {}
    /\ all_results = <<>>
    /\ task_errors = <<>>
    /\ report = <<>>
    /\ rankings = <<>>
    /\ suite = FirstTest
    /\ SetupDone

NextWorker ==
    \/ WStart(TheWorker)
    \/ \E gen_ok \in BOOLEAN : WDispatch(TheWorker, gen_ok, 0)
    \/ \E kind \in QueryKinds, bk \in WorkerBackends, delay \in -1..1 :
            WComplete(TheWorker, kind, bk, 0, 0, delay)
    \/ WReturn(TheWorker)
    \/ WThrow(TheWorker)

SpecWorker == InitWorker /\ [][NextWorker]_vars

\* ---- SpecLoop: the loop of one worker function when nothing but its
\* iterations can fail.
NextLoop ==
    \/ WStart(TheWorker)
    \/ \E gen_ok \in BOOLEAN : WDispatch(TheWorker, gen_ok, 0)
    \/ \E kind \in QueryKinds, bk \in WorkerBackends, delay \in -1..1 :
            WComplete(TheWorker, kind, bk, 0, 0, delay)
    \/ WReturn(TheWorker)

SpecLoop == InitWorker /\ [][NextLoop]_vars

\* ---- SpecRun: the timed phase of a run, from the pool's creation to the
\* return of the run method; setup has completed.
RunDelayRanges == {<<0, 1>>, <<-1, -1>>}

RunConfigs ==
    {c \in Configs :
        /\ c.delay_range \in RunDelayRanges
        /\ c.initial_rows = 0
        /\ c.variant # "update" => c.upb = 1
        /\ c.ncat = Len(CatalogSeq(c.variant, c.ncat))
        /\ c.ncat * c.threads <= MaxWorkers
        /\ c.ncat * c.threads * c.ops * c.upb <= MaxTotalOps}

InitRun ==
    /\ xq = NoCall
    /\ alt = NoAlt
    /\ config \in RunConfigs
    /\ MainRunning
    /\ WorkersIdle /\ CoordIdle /\ SetupDone

NextRun ==
    \/ EnterPool
    \/ Submit
    \/ \E w \in Workers : WStart(w)
    \/ \E w \in Workers : WDispatch(w, TRUE, 0)
    \/ \E w \in Workers, kind \in QueryKinds, bk \in WorkerBackends, delay \in -1..1 :
            WComplete(w, kind, bk, 0, 0, delay)
    \/ \E w \in Workers : WReturn(w)
    \/ \E w \in Workers : WThrow(w)
    \/ \E w \in Workers : Collect(w)
    \/ ExitPool
    \/ Analyze
    \/ Main

SpecRun == InitRun /\ [][NextRun]_vars

\* ---- SpecLive: the run when every backend call returns, no worker function
\* is left by an exception of its own, and every thread that can take a step
\* eventually takes one. Every worker has at least one operation to run.
NextLive ==
    \/ EnterPool
    \/ Submit
    \/ \E w \in Workers : WStart(w)
    \/ \E w \in Workers : WDispatch(w, TRUE, 0)
    \/ \E w \in Workers, kind \in QueryKinds, bk \in WorkerBackends, delay \in -1..1 :
            WComplete(w, kind, bk, 0, 0, delay)
    \/ \E w \in Workers : WReturn(w)
    \/ \E w \in Workers : Collect(w)
    \/ ExitPool
    \/ Analyze
    \/ Main

LiveConfigs == {c \in RunConfigs : c.ops >= 1 /\ c.delay_range = <<0, 1>>}

InitLive ==
    /\ xq = NoCall
    /\ alt = NoAlt
    /\ config \in LiveConfigs
    /\ MainRunning
    /\ WorkersIdle /\ CoordIdle /\ SetupDone

SpecLive == InitLive /\ [][NextLive]_vars /\ WF_vars(NextLive)

\* ---- SpecSetup: a run method from its setup call to the workers' first
\* operations.
SetupConfigs ==
    {c \in Configs :
        /\ c.delay_range = <<0, 1>>
        /\ c.upb = 1
        /\ c.ops = 1
        /\ c.threads = 1
        /\ c.ncat = Len(CatalogSeq(c.variant, c.ncat))
        /\ ~Populates(c.variant) => c.initial_rows = 0}

InitSetup ==
    /\ xq = NoCall
    /\ alt = NoAlt
    /\ config \in SetupConfigs
    /\ MainRunning
    /\ WorkersIdle /\ CoordIdle /\ SetupIdle

NextSetup ==
    \/ SetupBegin
    \/ \E bk \in WorkerBackends : SetupStatement(bk)
    \/ EnterPool
    \/ Submit
    \/ \E w \in Workers : WStart(w)
    \/ \E w \in Workers : WDispatch(w, TRUE, 0)

SpecSetup == InitSetup /\ [][NextSetup]_vars

\* ---- SpecSuite: run_all_tests of TrinoConcurrencyTester, three tests of one
\* thread per backend and one operation per thread, and the analysis.
RECURSIVE Flatten(_)
Flatten(lists) ==
    IF lists = <<>> THEN <<>> ELSE Head(lists) \o Flatten(Tail(lists))

\* The state the next test starts its pool and workers from.
NextTestStarts ==
    /\ wpc' = [w \in Workers |-> "unsubmitted"]
    /\ wi' = [w \in Workers |-> 0]
    /\ wj' = [w \in Workers |-> 0]
    /\ batch_results' = [w \in Workers |-> <<>>]
    /\ results' = [w \in Workers |-> <<>>]
    /\ dispatched' = [w \in Workers |-> {}]
    /\ sleeps' = [w \in Workers |-> 0]
    /\ executes' = [w \in Workers |-> 0]
    /\ tasks' = <<>>
    /\ max_workers' = 0
    /\ collected' = {}
    /\ all_results' = <<>>
    /\ task_errors' = <<>>
    /\ cpc' = "start"
    /\ UNCHANGED <<report, rankings>>

\* A run_all_tests that goes on to the next test while the futures of the
\* current one are being collected.
TestReturnsWhileCollecting ==
    /\ cpc = "collect"
    /\ suite.phase < NumPhases
    /\ suite' = [phase |-> suite.phase + 1, done |-> Append(suite.done, all_results)]
    /\ NextTestStarts
    /\ UNCHANGED <<xq, alt, mainVars, config, setupVars>>

\* concurrent_insert_test or concurrent_read_test returns its list after the
\* with block, run_all_tests extends all_results with it, sleeps, and calls
\* the next test.
TestReturns ==
    /\ cpc = "analyze"
    /\ suite.phase < NumPhases
    /\ suite' = [phase |-> suite.phase + 1, done |-> Append(suite.done, all_results)]
    /\ NextTestStarts
    /\ UNCHANGED <<xq, alt, mainVars, config, setupVars>>

\* mixed_workload_test returns, run_all_tests extends all_results with its
\* list and calls analyze_results on the whole.
SuiteAnalyze ==
    /\ cpc = "analyze"
    /\ suite.phase = NumPhases
    /\ LET whole == Flatten(suite.done) \o all_results
       IN /\ all_results' = whole
          /\ report' = ReportedPrefix(config.variant, RunCatalogs, whole)
          /\ rankings' = IF AnalyzeRaises(config.variant, RunCatalogs, whole)
                         THEN <<>>
                         ELSE Rankings(config.variant, RunCatalogs, whole)
          /\ cpc' = IF AnalyzeRaises(config.variant, RunCatalogs, whole)
                    THEN "raised" ELSE "done"
    /\ suite' = [suite EXCEPT !.done = Append(@, all_results)]
    /\ UNCHANGED <<tasks, max_workers, collected, task_errors>>
    /\ UNCHANGED <<xq, alt, mainVars, config, workerVars, setupVars>>

SuiteConfigs ==
    {c \in Configs :
        /\ c.variant = "concurrency"
        /\ c.delay_range = <<0, 1>>
        /\ c.initial_rows = 0
        /\ c.upb = 1
        /\ c.threads = 1
        /\ c.ops = 1
        /\ c.ncat = Len(CatalogSeq(c.variant, c.ncat))}

InitSuite ==
    /\ xq = NoCall
    /\ alt = NoAlt
    /\ config \in SuiteConfigs
    /\ MainRunning
    /\ WorkersIdle /\ CoordIdle /\ SetupDone

NextSuite ==
    \/ EnterPool
    \/ Submit
    \/ \E w \in Workers : WStart(w)
    \/ \E w \in Workers : WDispatch(w, TRUE, 0)
    \/ \E w \in Workers, kind \in QueryKinds, bk \in WorkerBackends :
            /\ kind \in PhaseKinds(suite.phase)
            /\ WComplete(w, kind, bk, 0, 0, 1)
    \/ \E w \in Workers : WReturn(w)
    \/ \E w \in Workers : Collect(w)
    \/ ExitPool
    \/ TestReturns
    \/ SuiteAnalyze

SpecSuite == InitSuite /\ [][NextSuite]_vars

\* ---- SpecNessie: one call of wait_for_nessie, every request returning or
\* failing.
RetryDelays == {-1, 0, 5}

InitNessie ==
    /\ xq = NoCall
    /\ alt = NoAlt
    /\ config = IdleConfig
    /\ MainRunning
    /\ WorkersIdle /\ CoordIdle /\ SetupIdle

NextNessie ==
    \/ \E m \in 0..MaxRetries, d \in RetryDelays : WaitCall(m, d)
    \/ \E answer \in Answers : WaitRequest(answer)
    \/ WaitExhausted

SpecNessie == InitNessie /\ [][NextNessie]_vars /\ WF_vars(NextNessie)

\* ---- SpecIdem: the setup method called up to MaxSetups times in succession
\* on one tester, on backends that may hold a namespace and a table of an
\* earlier run.
StartStores ==
    {FreshStore, [schema |-> TRUE, table |-> <<>>],
     [schema |-> TRUE, table |-> << <<>> >>],
     [schema |-> TRUE, table |-> << <<BatchIds(1, 1)>> >>]}

InitIdem ==
    /\ xq = NoCall
    /\ alt = NoAlt
    /\ config \in SetupConfigs
    /\ MainRunning
    /\ WorkersIdle /\ CoordIdle
    /\ spc = "idle" /\ sidx = 0 /\ issued = <<>> /\ setups = 0
    /\ db \in [Range(RunCatalogs) -> StartStores]

\* The backends on which every statement succeeds.
SucceedingBackends == {bk \in WorkerBackends : bk.fault = "none"}

NextIdem ==
    \/ SetupBegin
    \/ \E bk \in SucceedingBackends : SetupStatement(bk)
    \/ SetupAgain

SpecIdem == InitIdem /\ [][NextIdem]_vars

\* ---- SpecMain: main from the construction of the tester to the end of
\* cleanup, around a run of one thread per backend and one operation each.
MainConfigs ==
    {c \in Configs :
        /\ c.delay_range = <<0, 1>>
        /\ c.upb = 1 /\ c.ops = 1 /\ c.threads = 1 /\ c.initial_rows = 0
        /\ c.ncat = Len(CatalogSeq(c.variant, c.ncat))}

InitMain ==
    /\ xq = NoCall
    /\ alt = NoAlt
    /\ config \in MainConfigs
    /\ conns = [c \in Range(HandleOrder) |-> "none"]
    /\ mpc = "new"
    /\ nessie = NotWaiting
    /\ WorkersIdle /\ CoordIdle /\ SetupIdle

NextMain ==
    \/ \E ok \in BOOLEAN : SetupConnections(ok)
    \/ SetupBegin
    \/ \E bk \in WorkerBackends : SetupStatement(bk)
    \/ EnterPool
    \/ Submit
    \/ \E w \in Workers : WStart(w)
    \/ \E w \in Workers : WDispatch(w, TRUE, 0)
    \/ \E w \in Workers, kind \in QueryKinds, bk \in WorkerBackends, delay \in 0..1 :
            WComplete(w, kind, bk, 0, 0, delay)
    \/ \E w \in Workers : WReturn(w)
    \/ \E w \in Workers : Collect(w)
    \/ ExitPool
    \/ Analyze
    \/ Main
    \/ CleanupBegin
    \/ \E ok \in BOOLEAN : CleanupClose(ok)
    \/ CleanupReturn

SpecMain == InitMain /\ [][NextMain]_vars

\* ---- The aggregator applied to a second, related run result.
MaxResults == 3    \* cap on the outcomes of an analysed run result

Orders == Permutations(1..MaxResults)

\* The statement kind of the outcomes the aggregator is exercised on.
AnalyzedKind(variant) == CHOOSE kind \in KindsOf(variant) : kind # "SELECT"

\* What execute_query returns to the first worker of each catalog: a success
\* after one or two seconds, a failure after one.
AnalyzedOutcomes(variant, catalogs) ==
    LET all == {ExecuteQuery(variant, CatalogArg(variant, w), AnalyzedKind(variant),
                             bk, 0, t1, ThreadId(variant, w)).value :
                   w \in WorkersOf(variant, catalogs, 1),
                   bk \in WorkerBackends, t1 \in {1, 2}}
    IN {r \in all : ~r.success => r.duration = 1}

\* The aggregator applied to a second run result rs, related to the first as
\* `how` says.
AnalyzeAgain(how, rs) ==
    /\ cpc \in {"done", "raised"}
    /\ alt = NoAlt
    /\ alt' = [called |-> TRUE, how |-> how,
               report |-> ReportedPrefix(config.variant, RunCatalogs, rs)]
    /\ UNCHANGED <<xq, mainVars, config, workerVars, coordVars, setupVars>>

\* The run result with its outcomes in the order in which their indices
\* stand in q, an ordering of 1..MaxResults.
Reordered(rs, q) ==
    LET Kept(k) == k <= Len(rs)
        idx == SelectSeq(q, Kept)
    IN [k \in DOMAIN rs |-> rs[idx[k]]]

AnalyzeReordered(q) ==
    /\ cpc \in {"done", "raised"}
    /\ alt = NoAlt
    /\ LET rs == Reordered(all_results, q)
       IN AnalyzeAgain(<<"reordered", rs # all_results>>, rs)

\* The run result in which the k-th operation went the other way: execute_query
\* called for the same worker and taking the same time on a backend bk that
\* makes it return the opposite success flag.
AnalyzeFlipped(k, bk) ==
    /\ cpc \in {"done", "raised"}
    /\ alt = NoAlt
    /\ k \in DOMAIN all_results
    /\ LET old == all_results[k]
           r == ExecuteQuery(config.variant, old.catalog,
                             AnalyzedKind(config.variant), bk, 0, old.duration,
                             old.thread_id).value
       IN /\ r.success # old.success
          /\ AnalyzeAgain(<<"flipped", old.thread_id[1]>>,
                          [all_results EXCEPT ![k] = r])

\* ---- SpecAnalyze: the aggregator on arbitrary run results of at most
\* MaxResults outcomes.
AnalyzeConfigs ==
    {c \in Configs :
        /\ c.delay_range = <<0, 1>>
        /\ c.upb = 1 /\ c.ops = 1 /\ c.threads = 1 /\ c.initial_rows = 0
        /\ c.ncat = Len(CatalogSeq(c.variant, c.ncat))}

RunResults(variant, catalogs) ==
    UNION {[1..n -> AnalyzedOutcomes(variant, catalogs)] : n \in 0..MaxResults}

InitAnalyze ==
    /\ xq = NoCall
    /\ alt = NoAlt
    /\ config \in AnalyzeConfigs
    /\ MainRunning
    /\ WorkersIdle
    /\ tasks = <<>>
    /\ max_workers = 0
    /\ cpc = "analyze"
    /\ collected = {}
    /\ suite = FirstTest
    /\ all_results \in RunResults(config.variant, RunCatalogs)
    /\ task_errors = <<>>
    /\ report = <<>>
    /\ rankings = <<>>
    /\ SetupDone

NextAnalyze ==
    \/ Analyze
    \/ \E q \in Orders : AnalyzeReordered(q)
    \/ \E k \in 1..MaxResults, bk \in WorkerBackends : AnalyzeFlipped(k, bk)

SpecAnalyze == InitAnalyze /\ [][NextAnalyze]_vars

(***************************************************************************)
(* Properties.                                                             *)
(***************************************************************************)
\* Number of positions of seq that hold x.
Occurrences(seq, x) == Cardinality({k \in DOMAIN seq : seq[k] = x})

\* The positions of rs whose record belongs to loop index i.
OutcomesOf(rs, i) == {k \in DOMAIN rs : rs[k].op[2] = i}

\* The operations of loop index i that worker w handed to execute_query.
DispatchedIn(w, i) == {d \in dispatched[w] : d[1] = i}

Finished == cpc \in {"analyze", "done", "raised", "exited", "main_raised"}

\* C1: in every stress worker, each operation handed to execute_query
\* contributes exactly one Outcome to the list the worker returns, whatever
\* the backend call, the statement generation and the sleep do. (An iteration
\* with d dispatched operations leaves exactly d records.)
C1_OneOutcomePerOperation ==
    \A w \in Workers :
        (config.variant \in StressVariants /\ wpc[w] = "returned") =>
            \A i \in 0..(config.ops - 1) :
                DispatchedIn(w, i) # {} =>
                    Cardinality(OutcomesOf(results[w], i))
                        = Cardinality(DispatchedIn(w, i))

\* C2: after a stress run in which no worker task threw, the count the aggregator
\* reports for every backend is threads_per_catalog times the operations per
\* worker.
C2_ReportedCountIsConfiguredTotal ==
    (cpc \in {"done", "raised"} /\ task_errors = <<>>
        /\ config.variant \in StressVariants) =>
        \A k \in DOMAIN report :
            report[k].count = config.threads * config.ops * BatchLen

\* C3: execute_query never raises: when a driver call of the statement
\* (cursor, execute, fetchall, commit) raises, the call returns a dictionary
\* with success = FALSE whose error is the message of the exception.
C3_ExecuteQueryNeverRaises ==
    xq.called =>
        /\ ~xq.ret.raised
        /\ xq.bk.fault \in Range(DriverCalls(xq.variant, xq.kind)) =>
              /\ ~xq.ret.value.success
              /\ xq.ret.value.error = xq.bk.msg

\* A call whose last driver step (the commit of an UPDATE, the fetch of a
\* SELECT) raised and was returned as a failure.
C3_Witness ==
    /\ xq.called
    /\ xq.bk.fault \in {"commit", "fetchall"}
    /\ xq.bk.fault \in Range(DriverCalls(xq.variant, xq.kind))
    /\ ~xq.ret.raised
    /\ ~xq.ret.value.success

\* C4: no two workers are inside execute_query on the same connection object
\* at the same time.
C4_HandlesExclusive ==
    \A w1 \in Workers, w2 \in Workers :
        (w1 # w2 /\ wpc[w1] = "incall" /\ wpc[w2] = "incall") =>
            ConnectionOf(config.variant, w1) # ConnectionOf(config.variant, w2)

\* C5: the merged list holds every record of every collected worker that
\* returned exactly once and nothing else, in whatever order the workers
\* complete; when the collect loop is over every worker has been collected.
C5_MergeExact ==
    /\ \A w \in collected :
          wpc[w] = "returned" =>
              \A k \in DOMAIN results[w] :
                  Occurrences(all_results, results[w][k]) = 1
    /\ \A k \in DOMAIN all_results :
          LET w == all_results[k].op[1]
          IN /\ w \in collected
             /\ wpc[w] = "returned"
             /\ Occurrences(results[w], all_results[k]) = 1
    /\ Finished => collected = Workers

\* A finished run of two workers with records each, merged in the opposite
\* of the submission order.
C5_Witness ==
    /\ Finished
    /\ Len(tasks) >= 2
    /\ wpc[tasks[1]] = "returned" /\ results[tasks[1]] # <<>>
    /\ wpc[tasks[2]] = "returned" /\ results[tasks[2]] # <<>>
    /\ all_results[1].op[1] = tasks[2]

\* C6: a worker that returns has gone through every loop index, and at every
\* index it handed each statement of the iteration to execute_query (unless
\* the statement generation itself raised, which the loop records), whatever
\* Outcomes failed.
C6_RunsEveryOperation ==
    \A w \in Workers :
        wpc[w] = "returned" =>
            /\ wi[w] = config.ops
            /\ \A i \in 0..(config.ops - 1) :
                  \/ \A j \in 1..BatchLen : <<i, j>> \in dispatched[w]
                  \/ \E k \in DOMAIN results[w] :
                        /\ results[w][k].op = <<w, i, 0>>
                        /\ results[w][k].error = "generation failed"

\* A worker that returned after every one of its (two or more) operations
\* failed at the backend.
C6_Witness ==
    \E w \in Workers :
        /\ wpc[w] = "returned"
        /\ config.ops >= 2
        /\ Cardinality(dispatched[w]) = config.ops * BatchLen
        /\ Len(results[w]) = config.ops * BatchLen
        /\ \A k \in DOMAIN results[w] : ~results[w][k].success

\* C7: a task that threw is logged once and none of its records is in the
\* merged list; the collect loop still ends only when every other worker has
\* terminated and been collected, with every record of every returned worker
\* merged.
C7_ThrownWorkerIsolated ==
    /\ \A w \in collected :
          wpc[w] = "thrown" =>
              /\ Occurrences(task_errors, w) = 1
              /\ \A k \in DOMAIN all_results : all_results[k].op[1] # w
    /\ (Finished /\ task_errors # <<>>) =>
          \A w \in Workers :
              /\ wpc[w] \in Terminated
              /\ w \in collected
              /\ wpc[w] = "returned" =>
                    \A k \in DOMAIN results[w] :
                        Occurrences(all_results, results[w][k]) >= 1

\* A finished run in which a worker threw after dispatching an operation and
\* was collected before a sibling that returned records.
C7_Witness ==
    /\ Finished
    /\ \E w \in Workers, u \in Workers :
          /\ wpc[w] = "thrown" /\ dispatched[w] # {}
          /\ task_errors[1] = w
          /\ wpc[u] = "returned" /\ results[u] # <<>>
          /\ Occurrences(all_results, results[u][1]) = 1

FailedStep(steps) ==
    \E k \in DOMAIN issued : issued[k].step \in steps /\ ~issued[k].success

\* C8: when a table creation or a pre-population batch has failed, the run
\* has ended with an exception and no worker task has been submitted, in
\* every harness including TrinoConcurrencyTester.
C8_CreateFailureAborts ==
    FailedStep({"create", "populate"}) => (spc = "raised" /\ tasks = <<>>)

\* C9: when a schema creation has failed, setup has raised and no worker has
\* been submitted or started.
C9_SchemaFailureAborts ==
    FailedStep({"schema"}) =>
        (spc = "raised" /\ \A w \in Workers : wpc[w] = "unsubmitted")

\* Setup has returned after executing, for every backend, the schema, drop
\* and create statements and every pre-population batch; the steps whose
\* failure raises have succeeded.
SetupFinished ==
    /\ spc = "ready"
    /\ \A c \in Range(RunCatalogs) :
          /\ \A s \in Range(SetupSteps) :
                \E k \in DOMAIN issued :
                    /\ issued[k].catalog = c /\ issued[k].step = s
                    /\ Fatal(config.variant, s) => issued[k].success
          /\ Populates(config.variant) =>
                \A b \in 1..NumBatches(config.initial_rows) :
                    \E k \in DOMAIN issued :
                        issued[k] = [catalog |-> c, step |-> "populate",
                                     batch |-> b, success |-> TRUE]

\* C10: no worker is started or dispatches an operation before setup has
\* finished for every backend: schema, drop and create executed and, where the
\* harness pre-populates, every batch inserted.
C10_NoDispatchBeforeSetup ==
    \A w \in Workers :
        (wpc[w] \in Active \/ dispatched[w] # {}) => SetupFinished

\* A worker of a pre-populating harness dispatched after two batches had been
\* inserted on each of two backends.
C10_Witness ==
    /\ Populates(config.variant)
    /\ NumBatches(config.initial_rows) >= 2
    /\ Len(RunCatalogs) >= 2
    /\ \E w \in Workers : dispatched[w] # {}

\* ---- C11: a run in which every operation of every backend failed, each
\* backend having run at least one, is reported in full (every backend with no
\* success and only failures) and neither the aggregator nor main raises.
EveryOperationFailed ==
    /\ cpc \in {"done", "raised", "exited", "main_raised"}
    /\ task_errors = <<>>
    /\ config.ops >= 1
    /\ \A k \in DOMAIN all_results : ~all_results[k].success

C11_AllFailingRunCompletes ==
    EveryOperationFailed =>
        /\ cpc \in {"done", "exited"}
        /\ Len(report) = Len(RunCatalogs)
        /\ \A k \in DOMAIN report :
              /\ report[k].catalog = RunCatalogs[k]
              /\ report[k].count >= 1
              /\ report[k].success = 0
              /\ report[k].failed = report[k].count
              /\ report[k].durations = <<>>

C11_Witness ==
    /\ EveryOperationFailed
    /\ cpc = "exited"
    /\ config.variant = "comprehensive"
    /\ Len(RunCatalogs) = 2
    /\ Len(all_results) >= 2

\* ---- C12: once the aggregator has gone through every backend, each outcome
\* of the run result lies in the partition of exactly one backend, the one it
\* was run on, and the reported counts add up to the number of outcomes.
PartitionsOf(r) ==
    {c \in Range(RunCatalogs) : InPartition(config.variant, c, r)}

ReportedCounts == [k \in DOMAIN report |-> report[k].count]

C12_PartitionsExact ==
    cpc \in {"done", "exited"} =>
        /\ \A k \in DOMAIN all_results :
              PartitionsOf(all_results[k]) = {all_results[k].op[1][1]}
        /\ SumSeq(ReportedCounts) = Len(all_results)

\* The same statement for the four stress harnesses alone.
StressPartitionsExact ==
    config.variant \in StressVariants => C12_PartitionsExact

\* The figures a report gives for backend c: none when the aggregator did not
\* get to it.
StatsOf(rep, c) == LET Of(st) == st.catalog = c IN SelectSeq(rep, Of)

\* ---- C13: when two run results differ only in the success flag of one
\* outcome, the figures reported for every backend other than the one that
\* outcome was run on are the same in both analyses.
C13_OtherBackendsUnaffected ==
    (alt.called /\ alt.how[1] = "flipped") =>
        \A c \in Range(RunCatalogs) \ {alt.how[2]} :
            StatsOf(alt.report, c) = StatsOf(report, c)

\* The same statement for the harnesses whose aggregator matches the whole
\* label and tests the sample size before the deviation.
GuardedAggregatorsUnaffected ==
    config.variant \in {"comprehensive", "delete", "update"} =>
        C13_OtherBackendsUnaffected

\* The order-independent figures of one backend.
Figures(st) ==
    [catalog |-> st.catalog, count |-> st.count, success |-> st.success,
     failed |-> st.failed,
     total_rows |-> IF st.durations = <<>> THEN <<>>
                    ELSE st.durations[1].total_rows,
     extremes |-> IF st.durations = <<>> THEN <<>>
                  ELSE <<st.durations[1].min_duration,
                         st.durations[1].max_duration>>]

\* ---- C14: analysing the outcomes of a run result in another order reports,
\* for every backend, the same count, success count, failure count, total rows
\* and minimum and maximum duration.
C14_OrderIndependent ==
    (alt.called /\ alt.how[1] = "reordered") =>
        /\ Len(alt.report) = Len(report)
        /\ \A k \in DOMAIN report :
              Figures(alt.report[k]) = Figures(report[k])

C14_Witness ==
    /\ alt.called
    /\ alt.how = <<"reordered", TRUE>>
    /\ cpc = "done"
    /\ Len(all_results) = MaxResults
    /\ \E k \in DOMAIN report :
          /\ report[k].success >= 2
          /\ report[k].durations[1].min_duration
                < report[k].durations[1].max_duration

\* ---- C15: for every backend whose success partition holds exactly one
\* outcome the deviation step does not raise, and the deviation it reports,
\* if it reports one, is 0.
C15_SingleSampleDeviationDefined ==
    cpc # "analyze" =>
        \A k \in DOMAIN report :
            report[k].success = 1 =>
                report[k].durations[1].stdev \in {<<"value", 0>>, <<"omitted">>}

\* The place of a backend identifier in lexical order.
IdentifierRank(c) ==
    CASE c = "iceberg" -> 0
      [] c = "iceberg_hms" -> 1
      [] c = "iceberg_nessie" -> 2
      [] c = "iceberg_polaris" -> 3

\* ---- C16: in every ranking, two backends of equal key stand in the lexical
\* order of their identifiers.
C16_TiesInIdentifierOrder ==
    cpc \in {"done", "exited"} =>
        \A n \in DOMAIN rankings :
            LET key == rankings[n].key
                order == rankings[n].order
            IN \A i, j \in DOMAIN order :
                  (/\ i < j
                   /\ ~Before(config.variant, key, order[i], order[j])
                   /\ ~Before(config.variant, key, order[j], order[i]))
                  => IdentifierRank(order[i].catalog)
                       < IdentifierRank(order[j].catalog)

\* The iterations worker w has been through.
IterationsDone(w) == 0..(wi[w] - 1)

\* ---- C17: an exception raised inside a loop iteration never leaves the
\* worker function: the worker keeps the outcomes it has, holds a record for
\* the failed iteration and goes on to the remaining iterations.
C17_IterationFailureRecorded ==
    \A w \in Workers :
        /\ wpc[w] # "thrown"
        /\ \A i \in IterationsDone(w) :
              \E k \in DOMAIN results[w] : results[w][k].op[2] = i
        /\ wpc[w] = "returned" => wi[w] = config.ops

\* The same statement for the four stress harnesses alone.
StressIterationFailureRecorded ==
    config.variant \in StressVariants => C17_IterationFailureRecorded

\* A worker that ran every one of its operations, one per iteration, with
\* delays time.sleep accepts.
RanAllOperations(w) ==
    /\ wpc[w] = "returned"
    /\ config.ops >= 1
    /\ config.upb = 1
    /\ SleepRange(config.variant, config.delay_range)[1] >= 0
    /\ \A i \in 0..(config.ops - 1) : <<i, 1>> \in dispatched[w]

\* ---- C18: a worker that ran n >= 1 operations slept exactly n - 1 times,
\* once between every two consecutive operations.
C18_SleepsBetweenOperations ==
    \A w \in Workers : RanAllOperations(w) => sleeps[w] = config.ops - 1

\* The same statement for the workers that test `batch_id < batches - 1`.
GuardedSleepsBetweenOperations ==
    SkipsLastSleep(config.variant) => C18_SleepsBetweenOperations

\* ---- C19: the end time is taken and the aggregator is called only when
\* every worker task has terminated, and from then on no outcome is added to
\* the run result.
C19_AggregationAfterJoin ==
    [][/\ Finished' => \A w \in Workers : wpc'[w] \in Terminated
       /\ Finished => all_results' = all_results]_vars

C19_Witness ==
    /\ cpc = "done"
    /\ Cardinality(Workers) = 2
    /\ \A w \in Workers : wpc[w] = "returned" /\ Len(results[w]) = 2
    /\ Len(all_results) = 4

\* ---- C20: the pool is sized to the number of (backend, thread slot) pairs,
\* one task is submitted for each pair and no pair twice, so a submitted task
\* never waits for a pool thread.
C20_OneTaskPerSlot ==
    /\ cpc # "start" => max_workers = Len(RunCatalogs) * config.threads
    /\ cpc \notin {"start", "submit"} =>
          /\ Len(tasks) = Len(RunCatalogs) * config.threads
          /\ Cardinality(Range(tasks)) = Len(tasks)
          /\ Range(tasks) = Workers
    /\ \A w \in Workers :
          wpc[w] = "queued" =>
              Cardinality({u \in Workers : wpc[u] \in Active}) < max_workers

C20_Witness ==
    /\ cpc = "collect"
    /\ Len(RunCatalogs) = 2
    /\ Len(tasks) = 2
    /\ max_workers = 2
    /\ \A w \in Workers : wpc[w] = "incall"

AllReturned == \A w \in Workers : wpc[w] = "returned"

\* ---- C21: when every backend call returns, every worker ends up returned
\* for good, and the coordinator joins the workers and the run method returns
\* the run result.
C21_WorkersCompleteAndRunReturns ==
    /\ <>[]AllReturned
    /\ <>(cpc = "done")

\* The part of the statement that precedes the aggregator: every worker ends
\* up returned and the coordinator gets past the pool.
EventuallyJoined == <>[](AllReturned /\ Finished)

SomeHandleClosed ==
    \E c \in Range(HandleOrder) : conns[c] \in {"closed", "close_failed"}

\* ---- C22: a worker runs only with every backend handle created, and a
\* handle is closed only when no worker is queued or running and, if workers
\* were submitted, the aggregator has been through the run result.
C22_HandlesOutliveWorkers ==
    /\ (\E w \in Workers : wpc[w] # "unsubmitted") =>
          \A c \in Range(HandleOrder) : conns[c] # "none"
    /\ (mpc = "cleanup" \/ SomeHandleClosed) =>
          /\ \A w \in Workers : wpc[w] \in Terminated \cup {"unsubmitted"}
          /\ tasks # <<>> => cpc \in {"exited", "main_raised", "raised"}

C22_Witness ==
    /\ mpc = "ended"
    /\ cpc = "exited"
    /\ Len(HandleOrder) = 2
    /\ \A c \in Range(HandleOrder) : conns[c] = "closed"
    /\ \A w \in Workers : wpc[w] = "returned"
    /\ Len(all_results) = 2

\* ---- C23: a close() that fails during cleanup is not raised to main, and
\* when cleanup is over no handle is left open.
C23_CloseFailureContained ==
    /\ mpc # "cleanup_raised"
    /\ mpc = "ended" => \A c \in Range(HandleOrder) : conns[c] # "open"

\* The same statement for the cleanup that wraps each close().
GuardedCloseFailureContained ==
    ClosesGuarded(config.variant) => C23_CloseFailureContained

\* The outcomes of a worker's private list, executor-made and synthetic.
RecordedOutcomes == UNION {Range(results[w]) : w \in Workers}

WellShaped(r) ==
    IF r.success
    THEN "error" \notin DOMAIN r
    ELSE /\ "error" \in DOMAIN r
         /\ "rows_count" \in DOMAIN r => r.rows_count = 0

\* ---- C24: every recorded Outcome, the ones the worker loop makes for an
\* iteration-level failure included, has no error field when it succeeded,
\* and when it failed has an error field and a rows field absent or zero.
C24_OutcomeShape == \A r \in RecordedOutcomes : WellShaped(r)

C24_Witness ==
    /\ \E r \in RecordedOutcomes : r.success /\ r.rows_count = 2
    /\ \E r \in RecordedOutcomes : ~r.success /\ r.op[3] = 0
    /\ \E r \in RecordedOutcomes : ~r.success /\ r.op[3] # 0

\* ---- C25: the duration of the Outcome an execute_query call returns is
\* never negative, whatever the two readings of the clock are.
C25_DurationNonNegative == xq.called => xq.ret.value.duration >= 0

\* The operations of worker w whose execute_query call is over.
CompletedDispatches(w) ==
    Cardinality(dispatched[w]) - (IF wpc[w] = "incall" THEN 1 ELSE 0)

CreateIssued(c) ==
    \E k \in DOMAIN issued : issued[k].catalog = c /\ issued[k].step = "create"

\* ---- C27: setup never raises at a DROP TABLE statement, and when the drop
\* statements are the only ones that failed, setup returns normally with a
\* CREATE TABLE executed for every backend.
C27_DropFailureIgnored ==
    /\ spc = "raised" => issued[Len(issued)].step # "drop"
    /\ (spc \in {"ready", "raised"} /\ ~FailedStep({"schema", "create", "populate"})) =>
          /\ spc = "ready"
          /\ \A c \in Range(RunCatalogs) : CreateIssued(c)

C27_Witness ==
    /\ spc = "ready"
    /\ Len(RunCatalogs) = 2
    /\ \A c \in Range(RunCatalogs) :
          \E k \in DOMAIN issued :
              /\ issued[k].catalog = c /\ issued[k].step = "drop"
              /\ ~issued[k].success
    /\ \A c \in Range(RunCatalogs) : CreateIssued(c)
    /\ cpc = "collect"

\* ---- C28: in a finished analysis the failure sample of each backend has at
\* most 3 error strings, no string twice, and the failure count of the
\* backend is the number of its failed outcomes.
C28_PreviewBoundedAndDistinct ==
    cpc = "done" =>
        \A k \in DOMAIN report :
            LET p == FailurePreview(config.variant, report[k].catalog, all_results)
            IN /\ Len(p) <= 3
               /\ \A i, j \in DOMAIN p : i # j => p[i] # p[j]
               /\ report[k].failed =
                     Len(FailedOps(Partition(config.variant, report[k].catalog,
                                             all_results)))

\* The bound and the count alone.
PreviewBoundedAndCounted ==
    cpc = "done" =>
        \A k \in DOMAIN report :
            LET bad == FailedOps(Partition(config.variant, report[k].catalog,
                                           all_results))
                p == FailurePreview(config.variant, report[k].catalog, all_results)
            IN /\ Len(p) <= 3
               /\ report[k].failed = Len(bad)
               /\ config.variant # "concurrency" => (bad # <<>> => p # <<>>)

\* The backends the ranking of the given key lists: none when the ranking is
\* not printed.
RankedBy(key) ==
    UNION {{rankings[k].order[i].catalog : i \in DOMAIN rankings[k].order} :
              k \in {n \in DOMAIN rankings : rankings[n].key = key}}

\* ---- C29: in a finished analysis of the comprehensive harness the
\* reliability ranking lists every backend that has an outcome in the run
\* result, the backends without a success included.
C29_ReliabilityRanksEveryBackend ==
    (cpc = "done" /\ "reliability" \in Range(RankingKeys(config.variant))) =>
        RankedBy("reliability") =
            {report[k].catalog : k \in {n \in DOMAIN report : report[n].count >= 1}}

\* What the ranking does list: the backends with a success, when there are
\* two of them or more.
ReliabilityRanksSucceeded ==
    (cpc = "done" /\ "reliability" \in Range(RankingKeys(config.variant))) =>
        LET ok == {report[k].catalog :
                      k \in {n \in DOMAIN report : report[n].success >= 1}}
        IN RankedBy("reliability") = IF Cardinality(ok) > 1 THEN ok ELSE {}

MutatingKinds == {"INSERT", "UPDATE", "DELETE"}

\* In the driver calls of the last execute_query call a commit follows the
\* execute, and the call failed when the commit did.
CommitsInsideTiming ==
    /\ xq.bk.fault \in {"none", "commit"} =>
          \E i, j \in DOMAIN xq.calls :
              i < j /\ xq.calls[i] = "execute" /\ xq.calls[j] = "commit"
    /\ xq.bk.fault = "commit" =>
          /\ ~xq.ret.value.success
          /\ xq.ret.value.error = xq.bk.msg

\* ---- C30: an execute_query call on an INSERT, UPDATE or DELETE statement
\* commits after the statement, inside the try block and so before the end
\* timestamp, and a commit that raises gives a failed Outcome.
C30_MutationsCommitInsideTiming ==
    (xq.called /\ xq.kind \in MutatingKinds) => CommitsInsideTiming

\* The same statement for the UPDATE statements of the update tester.
UpdateCommitsInsideTiming ==
    (xq.called /\ xq.variant = "update" /\ xq.kind = "UPDATE") =>
        CommitsInsideTiming

\* ---- C31: the rows_count of the successful Outcome an execute_query call
\* returns is never negative, whatever the cursor reports as its rowcount.
C31_RowsCountNonNegative ==
    (xq.called /\ xq.ret.value.success) => xq.ret.value.rows_count >= 0

\* The count is the cursor's own figure (the number of fetched rows for a
\* statement that is fetched, 0 for a cursor without the attribute).
RowsCountPassedThrough ==
    (xq.called /\ xq.ret.value.success) =>
        xq.ret.value.rows_count =
            IF "fetchall" \in Range(xq.calls) THEN xq.bk.fetched
            ELSE IF xq.bk.has_rowcount THEN xq.bk.rowcount ELSE 0

\* The keys of the dictionary execute_query returns.
ReturnedKeys(variant, success) ==
    LET bk == CHOOSE b \in Backends : TRUE
    IN IF success
       THEN DOMAIN SuccessOutcome(variant, "c", "INSERT", bk, 0, 0, "t")
       ELSE DOMAIN FailedOutcome(variant, "c", "INSERT", "m", 0, 0, "t")

\* The outcomes of the private lists that execute_query made.
ExecutorOutcomes == {r \in RecordedOutcomes : r.op[3] # 0}

\* ---- C32: an Outcome in a worker's list is the dictionary execute_query
\* returned, with no key written by the worker (op is the history tag of the
\* model, not a key of the dictionary).
C32_OutcomeNotModified ==
    \A r \in ExecutorOutcomes :
        DOMAIN r \ {"op"} = ReturnedKeys(config.variant, r.success)

\* The same statement for the workers that append the result as it is.
AppendOnlyOutcomeNotModified ==
    config.variant \in {"insert", "update", "concurrency"} =>
        C32_OutcomeNotModified

AllStatementsSucceeded == \A k \in DOMAIN issued : issued[k].success

\* ---- C33: when the setup method has returned, once or twice in succession,
\* with every statement succeeded, every backend has the namespace and the
\* table, and the table holds the batches of one pre-population, each once.
C33_SetupIdempotent ==
    (spc = "ready" /\ AllStatementsSucceeded) =>
        \A c \in Range(RunCatalogs) :
            db[c] = PopulatedOnce(config.variant, config.initial_rows)

C33_Witness ==
    /\ spc = "ready"
    /\ setups = 2
    /\ AllStatementsSucceeded
    /\ config.variant = "delete"
    /\ Len(RunCatalogs) = 2
    /\ config.initial_rows = BatchSize + 1
    /\ \A c \in Range(RunCatalogs) : Len(db[c].table[1]) = 2

\* The pre-population batches executed so far on backend c, in order, each
\* with the ids of its rows and whether it succeeded.
PopulateBatches(c) ==
    LET Of(x) == x.step = "populate" /\ x.catalog = c
        done == SelectSeq(issued, Of)
    IN [k \in DOMAIN done |->
           [ids |-> BatchIds(done[k].batch, config.initial_rows),
            success |-> done[k].success]]

\* ---- C34: the pre-population batches of a backend have from 1 to 1000
\* rows each and consecutive ids from 1 on, only the last batch of the
\* pre-population being shorter; when setup has returned they end at id N, so
\* that the ids are exactly 1..N, each in one batch; there is none when
\* N = 0; and a failed batch is the last statement setup executes.
C34_BatchesCoverIdsOnce ==
    /\ \A c \in Range(RunCatalogs) :
          LET bs == PopulateBatches(c)
              N == config.initial_rows
          IN /\ N = 0 => bs = <<>>
             /\ \A k \in DOMAIN bs :
                   /\ bs[k].ids[1] = IF k = 1 THEN 1 ELSE bs[k - 1].ids[2] + 1
                   /\ bs[k].ids[2] >= bs[k].ids[1]
                   /\ bs[k].ids[2] - bs[k].ids[1] + 1 <= BatchSize
                   /\ bs[k].ids[2] <= N
                   /\ bs[k].ids[2] < N => bs[k].ids[2] - bs[k].ids[1] + 1 = BatchSize
             /\ (spc = "ready" /\ Populates(config.variant) /\ N > 0) =>
                   bs # <<>> /\ bs[Len(bs)].ids[2] = N
    /\ \A k \in DOMAIN issued :
          (issued[k].step = "populate" /\ ~issued[k].success) =>
              k = Len(issued) /\ spc = "raised"

C34_Witness ==
    /\ spc = "ready"
    /\ config.variant = "update"
    /\ config.initial_rows = BatchSize + 1
    /\ Len(RunCatalogs) = 2
    /\ \A c \in Range(RunCatalogs) :
          /\ Len(PopulateBatches(c)) = 2
          /\ PopulateBatches(c)[2].ids = <<BatchSize + 1, BatchSize + 1>>

\* A pre-population that stopped at a failed batch.
PopulationStoppedAtFailure ==
    /\ spc = "raised"
    /\ config.initial_rows = 2 * BatchSize
    /\ \E c \in Range(RunCatalogs) :
          /\ Len(PopulateBatches(c)) = 1
          /\ ~PopulateBatches(c)[1].success

\* The backends of the run without an outcome in the run result.
EmptyBackends ==
    {c \in Range(RunCatalogs) :
        Partition(config.variant, c, all_results) = <<>>}

\* ---- C35: when the aggregator has been called on a run result in which
\* some backend has no outcome, it has not raised: it has reported every
\* backend of the run, the ones without an outcome with a count of 0.
C35_EmptyBackendReported ==
    (cpc \in {"done", "raised"} /\ EmptyBackends # {}) =>
        /\ cpc = "done"
        /\ Len(report) = Len(RunCatalogs)
        /\ \A k \in DOMAIN report :
              /\ report[k].catalog = RunCatalogs[k]
              /\ report[k].catalog \in EmptyBackends => report[k].count = 0

\* The same statement for the aggregators of the delete and concurrency
\* testers, which divide by no count.
GuardedEmptyBackendReported ==
    config.variant \in {"delete", "concurrency"} => C35_EmptyBackendReported

\* main has returned or has been left by an exception.
MainOver == mpc \in {"ended", "init_raised", "cleanup_raised"}

\* ---- C36: when main is over, however it ended, no backend handle is open.
C36_NoHandleLeftOpen ==
    MainOver => \A c \in Range(HandleOrder) : conns[c] # "open"

\* What holds: main gets to cleanup when setup has raised, and a cleanup
\* that returns leaves no handle open.
HandlesClosedAfterCleanup ==
    /\ mpc = "ended" => \A c \in Range(HandleOrder) : conns[c] # "open"
    /\ (spc = "raised" /\ MainOver) => mpc \in {"ended", "cleanup_raised"}

Analysed == cpc \in {"done", "raised"}

\* ---- C37: run_all_tests goes from one test to the next only when every
\* worker of the test has terminated, keeping the results of the test; the
\* analysis runs when the third test is over, on the results of the three
\* tests together; and nothing runs after the analysis.
C37_PhasesInSequence ==
    [][/\ suite'.phase # suite.phase =>
             /\ \A w \in Workers : wpc[w] \in Terminated
             /\ suite'.phase = suite.phase + 1
             /\ suite'.done = Append(suite.done, all_results)
       /\ (\E w \in Workers : wpc[w] = "unsubmitted" /\ wpc'[w] # "unsubmitted") =>
             Len(suite.done) = suite.phase - 1
       /\ (Analysed' /\ ~Analysed) =>
             /\ suite.phase = NumPhases
             /\ \A w \in Workers : wpc[w] \in Terminated
             /\ Len(suite'.done) = NumPhases
             /\ all_results' = Flatten(suite'.done)
             /\ report' = ReportedPrefix(config.variant, RunCatalogs, all_results')
       /\ Analysed => (Analysed' /\ suite' = suite /\ wpc' = wpc)]_vars

C37_Witness ==
    /\ cpc = "done"
    /\ Len(RunCatalogs) = 2
    /\ Len(suite.done) = NumPhases
    /\ \A k \in DOMAIN suite.done : Len(suite.done[k]) = 2
    /\ Len(all_results) = 2 * NumPhases
    /\ all_results[1].catalog[2] = "-T"
    /\ all_results[3].catalog[2] = "-R"
    /\ all_results[5].catalog[2] = "-M"

\* The requests of the call so far, in order, each with how it ended.
Requests ==
    IF nessie.pc = "idle" THEN <<>>
    ELSE LET IsGet(e) == e[1] = "get" IN SelectSeq(nessie.trace, IsGet)

\* ---- C38: wait_for_nessie makes at most max_retries requests; it has
\* returned True exactly when its last request, and no earlier one, was
\* answered with 200, and False only after max_retries requests without a
\* 200; and it always comes to an end.
C38_BoundedRetries ==
    /\ [](nessie.pc # "idle" =>
            /\ Len(Requests) <= nessie.max_retries
            /\ \A k \in DOMAIN Requests :
                  Requests[k][2] = "200" =>
                      (k = Len(Requests) /\ nessie.result = <<TRUE>>)
            /\ nessie.result = <<TRUE>> =>
                  (Requests # <<>> /\ Requests[Len(Requests)][2] = "200")
            /\ nessie.result = <<FALSE>> => Len(Requests) = nessie.max_retries
            /\ (nessie.result # <<>>) <=> (nessie.pc = "returned"))
    /\ <>(nessie.pc \in {"returned", "raised"})

C38_Witness ==
    /\ nessie.pc = "returned"
    /\ nessie.max_retries = 3
    /\ nessie.result = <<TRUE>>
    /\ Len(Requests) = 3
    /\ Requests[1][2] = "RequestException"
    /\ Requests[2][2] = "503"

\* A call that used up its attempts.
WaitGaveUp ==
    /\ nessie.pc = "returned"
    /\ nessie.result = <<FALSE>>
    /\ Len(Requests) = 3

\* ---- C39: between any two consecutive requests of wait_for_nessie there is
\* a sleep of `delay` seconds.
C39_SleepsBetweenRequests ==
    nessie.pc # "idle" =>
        \A k \in DOMAIN nessie.trace :
            (nessie.trace[k][1] = "get" /\ k < Len(nessie.trace)) =>
                nessie.trace[k + 1] = <<"sleep", nessie.delay>>

\* The same statement for the requests that failed with a RequestException.
SleepsAfterRequestException ==
    nessie.pc # "idle" =>
        \A k \in DOMAIN nessie.trace :
            (nessie.trace[k] = <<"get", "RequestException">> /\ k < Len(nessie.trace)) =>
                nessie.trace[k + 1] = <<"sleep", nessie.delay>>

====
